---- MODULE Spec2Model ----
(***************************************************************************)
(* ClipEssence AI: the wizard controller (App), the credential step        *)
(* (ApiKeyInputStep), the intake step (InputStep), the summarization        *)
(* gateway (geminiService) and the review step (TextReviewStep).            *)
(*                                                                         *)
(* React state is modelled as committed state: the synchronous part of an  *)
(* event handler (up to its first await) is one step, and the continuation *)
(* after an await is another. A component's state exists while the         *)
(* component is rendered and is created afresh by useState at each mount.   *)
(***************************************************************************)
EXTENDS Integers, Sequences, FiniteSets, TLC

\* ---------------------------------------------------------------- bounds
\* uploaded images kept by the intake step
MaxImages == 1
\* summarization calls in flight (the code has no cap of its own)
MaxCalls == 2
\* search calls in flight (the code has no cap of its own)
MaxSearchCalls == 1
MaxSearches == 2
\* timers of handleTextReviewComplete pending (the code has no cap of its own)
MaxTimers == 2
\* the largest distance, per axis, a widget is dragged from its place
MaxOffset == 1
\* the most elements deleted in one visit of the editor
MaxHidden == 1
\* the most widgets on screen whose drag reference was written by a press
MaxPressed == 1
\* the most elements that carry a style override
MaxStyled == 2
\* the most images uploaded in the editor that are in use at a time
MaxUploads == 1
\* the most html2canvas calls in flight
MaxDownloads == 2

\* ------------------------------------------------------------------ text
\* A string is a sequence of characters; one character stands for a run of
\* text ("x", a search result block "1".."3") or of white space.
WhiteSpace == {" ", "\n"}

RECURSIVE trimStart(_)
trimStart(s) ==
    IF s = <<>> THEN <<>>
    ELSE IF Head(s) \in WhiteSpace THEN trimStart(Tail(s)) ELSE s

RECURSIVE trimEnd(_)
trimEnd(s) ==
    IF s = <<>> THEN <<>>
    ELSE IF s[Len(s)] \in WhiteSpace THEN trimEnd(SubSeq(s, 1, Len(s) - 1)) ELSE s

\* String.prototype.trim
trim(s) == trimEnd(trimStart(s))

\* a string in a boolean context: only the empty string is falsy
Truthy(s) == s # <<>>

\* what the user can type into a text field of the intake or credential step
TypedTexts == {<<>>, <<" ">>, <<"x">>}

\* what the user can type into the search box
QueryTexts == {<<>>, <<"x">>}

\* videoContext || "（用户未提供文本，请根据视频画面生成通用的视觉描述和摘要）"
VideoFallbackText == <<"v">>

\* alerts and inline errors
NoAlert == "none"
\* "请上传视频或输入描述"
AlertVideoMissing == "video: upload a video or enter a description"
\* "请至少上传一张图片或输入文案"
AlertImagesMissing == "images: upload an image or enter a caption"
\* "请先搜索并至少选择一条结果"
AlertSearchMissing == "search: search and select at least one result"
\* "AI 处理失败，请检查网络或 API Key 是否有效。"
AlertAiFailed == "AI processing failed"
\* "请输入 API Key"
ErrorKeyBlank == "enter an API key"
\* "API Key 无效，请检查后重试。"
ErrorKeyInvalid == "API key invalid"

\* ------------------------------------------------------------ data model
AppStep == {"API_KEY_INPUT", "INPUT", "PROCESSING_TEXT", "REVIEW_TEXT",
            "GENERATING_IMAGES", "RESULT_EDITOR"}

InputSourceType == {"VIDEO", "IMAGES", "SEARCH"}

\* null, as a value of metadata, summary and data
Null == [kind |-> "null"]

\* a value JSON.parse yields that is truthy and has no keyPoints and no
\* goldenQuotes (an array, an object without the fields)
Malformed == [kind |-> "malformed"]

\* the text a user types over a Summary field in the review step
EditTexts == {"e"}

\* sequences over S of length at most n
SeqsUpTo(S, n) == UNION {[1..k -> S] : k \in 0..n}

VARIABLES
    \* the browser
    storedKey,      \* localStorage 'gemini_api_key' (<<>>: absent)
    envKey,         \* process.env.API_KEY is set
    html2canvas,    \* window.html2canvas is defined: its script has run
    \* App
    mounted,        \* App's mount effects have run
    step, metadata, summary,
    genTimers,      \* pending setTimeout callbacks of handleTextReviewComplete
    calls,          \* generateContentSummary calls in flight
    lastResp,       \* the gateway outcome delivered by the latest step, if any
    alertMsg,       \* the alert shown by the latest step, if any
    quoteObjs,      \* the Quote objects of the live Summary, by reference
    \* ApiKeyInputStep
    apiKey, isValidating, error, success,
    validations,    \* validateApiKey calls in flight
    completeTimers, \* pending setTimeout callbacks of handleValidate
    \* InputStep
    activeTab, videoFile, videoContext, imageUrls, imageContext,
    searchQuery, isSearching, searchResults, selectedResultIds,
    searchCalls,    \* searchTopic calls in flight of the mounted InputStep
    \* TextReviewStep
    data,
    \* ImageGenerationStep
    infoStyle, hiddenFields, selectedElementId, elementStyles,
    activeFont, textColor, highlightColor, imageSeeds, customImages,
    \* the DeletableWidget instances of ImageGenerationStep, by place in the tree
    position, isDragging, dragRef,
    pressed,        \* what the mouse button is held down on, if anything
    lastEdit,       \* the editor event handled by the latest step, if any
    localSummary,   \* ImageGenerationStep's own copy of the Summary
    activeMode,
    downloadLabel,  \* the text of the button #download-btn
    downloads       \* html2canvas calls in flight of the mounted editor

browserVars == <<storedKey, envKey, html2canvas>>
appVars == <<mounted, step, metadata, summary, genTimers, calls, lastResp,
             alertMsg, quoteObjs>>
keyStepVars == <<apiKey, isValidating, error, success, validations, completeTimers>>
inputStepVars == <<activeTab, videoFile, videoContext, imageUrls, imageContext,
                   searchQuery, isSearching, searchResults, selectedResultIds,
                   searchCalls>>
styleVars == <<infoStyle, hiddenFields, selectedElementId, elementStyles,
               activeFont, textColor, highlightColor>>
imageVars == <<imageSeeds, customImages>>
widgetVars == <<position, isDragging, dragRef, pressed>>
sessionVars == <<localSummary, activeMode, downloadLabel, downloads>>
editorVars == <<styleVars, imageVars, widgetVars, lastEdit, sessionVars>>
vars == <<browserVars, appVars, keyStepVars, inputStepVars, data, editorVars>>

\* ------------------------------------------------------- Summary values
\* A Summary held by a component keeps its goldenQuotes as references into
\* quoteObjs: spreading a Summary or copying the array copies the references,
\* not the Quote objects.
\* the Summary s with its quotes read through their references
SummaryValue(s) ==
    IF s.kind # "summary" THEN s
    ELSE [s EXCEPT !.goldenQuotes =
              [i \in 1..Len(s.goldenQuotes) |-> quoteObjs[s.goldenQuotes[i]]]]

\* the numbers of keyPoints and of goldenQuotes a backend response can carry
PointCounts == {0, 1}
QuoteCounts == {0, 1}

\* the well-formed Summary values a backend response can carry: n keyPoints
\* "k1".."kn" and m goldenQuotes "q1".."qm"
PointText(i) == <<"k1", "k2", "k3", "k4">>[i]
QuoteText(i) == <<"q1", "q2", "q3", "q4">>[i]
GatewaySummaries ==
    {[kind |-> "summary", title |-> "T", coreIdea |-> "C",
      keyPoints |-> [i \in 1..n |-> PointText(i)],
      goldenQuotes |-> [i \in 1..m |-> [text |-> QuoteText(i), timestamp |-> "00:10"]],
      searchImageUrls |-> <<>>] : n \in PointCounts, m \in QuoteCounts}

\* the built-in demo Summary of generateContentSummary
DemoSummary ==
    [kind |-> "summary", title |-> "demo", coreIdea |-> "demo",
     keyPoints |-> <<"demo1", "demo2", "demo3">>,
     goldenQuotes |-> <<[text |-> "demo", timestamp |-> "00:00"]>>,
     searchImageUrls |-> <<>>]

\* ------------------------------------------------------------ component state
\* useState initial values of ApiKeyInputStep
KeyStepFresh ==
    /\ apiKey' = <<>> /\ isValidating' = FALSE /\ error' = NoAlert
    /\ success' = FALSE /\ validations' = <<>> /\ completeTimers' = 0

\* useState initial values of InputStep; the calls of an unmounted InputStep
\* can only set state of a component that no longer exists
InputStepFresh ==
    /\ activeTab' = "VIDEO" /\ videoFile' = FALSE /\ videoContext' = <<>>
    /\ imageUrls' = <<>> /\ imageContext' = <<>>
    /\ searchQuery' = <<>> /\ isSearching' = FALSE /\ searchResults' = <<>>
    /\ selectedResultIds' = {} /\ searchCalls' = <<>>

\* step === AppStep.REVIEW_TEXT && summary: TextReviewStep is rendered
ReviewRendered == step = "REVIEW_TEXT" /\ summary # Null

\* TextReviewStep's render reads data.goldenQuotes.map and data.keyPoints.map:
\* with a value that has no such arrays it throws and React removes the tree
ReviewCrashed == ReviewRendered /\ summary.kind # "summary"

\* the children App renders after one of its own state changes: a child that
\* stays rendered keeps its state, one that appears starts from useState
RenderKeyStep ==
    IF step = "API_KEY_INPUT" /\ step' = "API_KEY_INPUT"
    THEN UNCHANGED keyStepVars ELSE KeyStepFresh

RenderInputStep ==
    IF step = "INPUT" /\ step' = "INPUT"
    THEN UNCHANGED inputStepVars ELSE InputStepFresh

RenderReview ==
    IF ReviewRendered /\ ReviewRendered'
    THEN UNCHANGED data
    ELSE data' = IF ReviewRendered' THEN summary' ELSE Null

\* step === AppStep.RESULT_EDITOR && summary && metadata: the editor is rendered
EditorRendered == step = "RESULT_EDITOR" /\ summary # Null /\ metadata # Null

\* type SeedKey, in the order the mount effect fills the slots
SlotOrder == <<"hero", "frame1", "frame2", "frame3", "frame4">>
SeedKey == {SlotOrder[i] : i \in 1..Len(SlotOrder)}

\* image URLs: object URLs of files, URLs a response carries, placeholders
NoImage == [kind |-> "none", id |-> 0]
Blob(n) == [kind |-> "blob", id |-> n]
Remote(n) == [kind |-> "remote", id |-> n]
\* `https://picsum.photos/seed/${seed + 200}/800/1000`
Picsum(seed) == [kind |-> "picsum", id |-> seed + 200]

\* the object URL of the video file chosen in InputStep
VideoUrl == Blob(0)

\* useState of imageSeeds: hero: 0, frame1: 1, frame2: 2, frame3: 3, frame4: 4
InitialSeeds == [k \in SeedKey |-> (CHOOSE i \in 1..Len(SlotOrder) : SlotOrder[i] = k) - 1]

\* useState of customImages: {}
NoImages == [k \in SeedKey |-> NoImage]

\* the first n slots filled from the list imgs, as `if (imgs[i]) initialImages[..] = imgs[i]`
FillSlots(imgs, n) ==
    [k \in SeedKey |->
        LET i == CHOOSE j \in 1..Len(SlotOrder) : SlotOrder[j] = k IN
        IF i <= n /\ i <= Len(imgs) THEN imgs[i] ELSE NoImage]

\* initialImages of the mount effect of ImageGenerationStep
initialImages(meta, sum) ==
    IF meta.sourceType = "VIDEO" /\ meta.fileUrl
    THEN [NoImages EXCEPT !["hero"] = VideoUrl]
    ELSE IF meta.sourceType = "IMAGES" /\ Len(meta.uploadedImages) > 0
    THEN FillSlots([i \in 1..Len(meta.uploadedImages) |-> Blob(meta.uploadedImages[i])], 5)
    ELSE IF meta.sourceType = "SEARCH" /\ Len(sum.searchImageUrls) > 0
    THEN FillSlots(sum.searchImageUrls, 4)
    ELSE NoImages

\* the places of DeletableWidget instances in the tree a template renders:
\* the index among the children of the template's root element
Places == 1..6
Origin == <<0, 0>>
NoDrag == [start |-> Origin, initial |-> Origin]
NoPress == [id |-> "", target |-> ""]
NoEdit == [op |-> "", id |-> ""]

\* the text of the export button: as rendered, and while handleDownload waits
LabelExport == "export JPEG"
LabelBusy == "generating..."

\* an editor whose hidden elements are kept outside the component
EditorFreshKeepsHidden ==
    /\ infoStyle' = "COVER" /\ UNCHANGED hiddenFields /\ selectedElementId' = ""
    /\ elementStyles' = <<>>
    /\ activeFont' = "SANS" /\ textColor' = "#FFFFFF" /\ highlightColor' = "#FACC15"
    /\ imageSeeds' = InitialSeeds
    /\ position' = [p \in Places |-> Origin]
    /\ isDragging' = [p \in Places |-> FALSE]
    /\ dragRef' = [p \in Places |-> NoDrag]
    /\ pressed' = NoPress /\ lastEdit' = NoEdit
    /\ localSummary' = IF EditorRendered' THEN summary' ELSE Null
    /\ activeMode' = "INFOGRAPHIC"
    /\ downloadLabel' = LabelExport /\ downloads' = 0

\* useState initial values of ImageGenerationStep and of its widgets, without
\* the images
EditorFreshExceptImages ==
    /\ infoStyle' = "COVER" /\ hiddenFields' = {} /\ selectedElementId' = ""
    /\ elementStyles' = <<>>
    /\ activeFont' = "SANS" /\ textColor' = "#FFFFFF" /\ highlightColor' = "#FACC15"
    /\ imageSeeds' = InitialSeeds
    /\ position' = [p \in Places |-> Origin]
    /\ isDragging' = [p \in Places |-> FALSE]
    /\ dragRef' = [p \in Places |-> NoDrag]
    /\ pressed' = NoPress /\ lastEdit' = NoEdit
    /\ localSummary' = IF EditorRendered' THEN summary' ELSE Null
    /\ activeMode' = "INFOGRAPHIC"
    /\ downloadLabel' = LabelExport /\ downloads' = 0

\* ImageGenerationStep appears (with its mount effect), stays or goes
RenderEditor ==
    IF EditorRendered /\ EditorRendered'
    THEN UNCHANGED editorVars
    ELSE /\ EditorFreshExceptImages
         /\ customImages' = IF EditorRendered' /\ summary'.kind = "summary"
                             THEN initialImages(metadata', summary')
                             ELSE NoImages

\* ----------------------------------------------------------------- gateway
\* !!(typeof localStorage !== 'undefined' ? localStorage.getItem('gemini_api_key')
\*    : process.env.API_KEY), in a browser
hasKey == Truthy(storedKey)

NoResp == [kind |-> "none", value |-> Null]
DemoResp == [kind |-> "demo", value |-> DemoSummary]

\* what the backend call of generateContentSummary can do: throw, answer with
\* no text, with text JSON.parse rejects, or with text JSON.parse accepts
BackendResponses ==
    {[kind |-> "throw", value |-> Null], [kind |-> "empty", value |-> Null],
     [kind |-> "unparseable", value |-> Null]}
    \cup {[kind |-> "json", value |-> v] : v \in {Null, Malformed} \cup GatewaySummaries}

\* the responses a call can get: the demo data without a stored key
ResponsesFor(call) == IF call.hasKey THEN BackendResponses ELSE {DemoResp}

\* generateContentSummary settles: resolve = TRUE with the value it returns,
\* resolve = FALSE when it throws
generateContentSummary(resp) ==
    IF resp.kind = "demo" THEN [resolve |-> TRUE, value |-> DemoSummary]
    ELSE IF resp.kind = "json"
    THEN [resolve |-> TRUE, value |-> resp.value]
    ELSE [resolve |-> FALSE, value |-> Null]

\* setSummary(v) with a value JSON.parse (or the demo literal) has just built:
\* its Quote objects are new ones
SetSummaryFresh(v) ==
    IF v.kind = "summary"
    THEN /\ summary' = [v EXCEPT !.goldenQuotes = [i \in 1..Len(v.goldenQuotes) |-> i]]
         /\ quoteObjs' = v.goldenQuotes
    ELSE /\ summary' = v
         /\ quoteObjs' = <<>>

\* ---------------------------------------------------------------------- App
\* the state at load, whatever process.env.API_KEY was at build time
InitAny ==
    /\ storedKey \in {<<>>, <<"x">>}
    /\ html2canvas = FALSE
    /\ mounted = FALSE /\ step = "API_KEY_INPUT"
    /\ metadata = Null /\ summary = Null /\ quoteObjs = <<>>
    /\ genTimers = 0 /\ calls = <<>> /\ lastResp = NoResp /\ alertMsg = NoAlert
    /\ apiKey = <<>> /\ isValidating = FALSE /\ error = NoAlert
    /\ success = FALSE /\ validations = <<>> /\ completeTimers = 0
    /\ activeTab = "VIDEO" /\ videoFile = FALSE /\ videoContext = <<>>
    /\ imageUrls = <<>> /\ imageContext = <<>>
    /\ searchQuery = <<>> /\ isSearching = FALSE /\ searchResults = <<>>
    /\ selectedResultIds = {} /\ searchCalls = <<>>
    /\ data = Null
    /\ infoStyle = "COVER" /\ hiddenFields = {} /\ selectedElementId = ""
    /\ elementStyles = <<>>
    /\ activeFont = "SANS" /\ textColor = "#FFFFFF" /\ highlightColor = "#FACC15"
    /\ imageSeeds = InitialSeeds /\ customImages = NoImages
    /\ position = [p \in Places |-> Origin]
    /\ isDragging = [p \in Places |-> FALSE]
    /\ dragRef = [p \in Places |-> NoDrag]
    /\ pressed = NoPress /\ lastEdit = NoEdit
    /\ localSummary = Null /\ activeMode = "INFOGRAPHIC"
    /\ downloadLabel = LabelExport /\ downloads = 0

\* a build with no process.env.API_KEY
Init == InitAny /\ envKey = FALSE

\* a build with process.env.API_KEY set
InitEnvKey == InitAny /\ envKey = TRUE

\* mount effects in which App tests the stored key only
AppMountStoredOnly ==
    /\ ~mounted
    /\ mounted' = TRUE
    /\ step' = IF Truthy(storedKey) THEN "INPUT" ELSE step
    /\ IF step' = "API_KEY_INPUT"
       THEN /\ apiKey' = IF Truthy(storedKey) THEN storedKey ELSE apiKey
            /\ UNCHANGED <<isValidating, error, success, validations, completeTimers>>
       ELSE KeyStepFresh
    /\ lastResp' = NoResp /\ alertMsg' = NoAlert
    /\ UNCHANGED <<browserVars, metadata, summary, genTimers, calls, quoteObjs,
                   inputStepVars, data, editorVars>>

\* the mount effects: ApiKeyInputStep's (prefill from storage), then App's
AppMount ==
    /\ ~mounted
    /\ mounted' = TRUE
    /\ step' = IF Truthy(storedKey) \/ envKey THEN "INPUT" ELSE step
    /\ IF step' = "API_KEY_INPUT"
       THEN /\ apiKey' = IF Truthy(storedKey) THEN storedKey ELSE apiKey
            /\ UNCHANGED <<isValidating, error, success, validations, completeTimers>>
       ELSE KeyStepFresh
    /\ lastResp' = NoResp /\ alertMsg' = NoAlert
    /\ UNCHANGED <<browserVars, metadata, summary, genTimers, calls, quoteObjs,
                   inputStepVars, data, editorVars>>

\* const handleApiKeyComplete
handleApiKeyComplete ==
    /\ step' = "INPUT"
    /\ UNCHANGED <<metadata, summary, quoteObjs, genTimers, calls>>

\* handleInputComplete testing `!transcript` where the code tests
\* `!transcript.trim()`
handleInputCompleteNoTrim(meta, transcript) ==
    /\ metadata' = meta
    /\ IF ~Truthy(transcript)
       THEN /\ alertMsg' = AlertAiFailed
            /\ step' = "INPUT"
            /\ calls' = calls
       ELSE /\ Len(calls) < MaxCalls
            /\ alertMsg' = NoAlert
            /\ step' = "PROCESSING_TEXT"
            /\ calls' = Append(calls, [input |-> transcript,
                                       sourceType |-> meta.sourceType,
                                       hasKey |-> hasKey,
                                       meta |-> meta])
    /\ UNCHANGED <<summary, quoteObjs, genTimers>>

\* handleInputComplete without its setMetadata(meta)
handleInputCompleteKeepsMeta(meta, transcript) ==
    /\ UNCHANGED metadata
    /\ IF trim(transcript) = <<>>
       THEN /\ alertMsg' = AlertAiFailed
            /\ step' = "INPUT"
            /\ calls' = calls
       ELSE /\ Len(calls) < MaxCalls
            /\ alertMsg' = NoAlert
            /\ step' = "PROCESSING_TEXT"
            /\ calls' = Append(calls, [input |-> transcript,
                                       sourceType |-> meta.sourceType,
                                       hasKey |-> hasKey,
                                       meta |-> meta])
    /\ UNCHANGED <<summary, quoteObjs, genTimers>>

\* const handleInputComplete, up to its first await
handleInputComplete(meta, transcript) ==
    /\ metadata' = meta
    /\ IF trim(transcript) = <<>>
       THEN \* throw new Error("No content provided") -> catch
            /\ alertMsg' = AlertAiFailed
            /\ step' = "INPUT"
            /\ calls' = calls
       ELSE /\ Len(calls) < MaxCalls
            /\ alertMsg' = NoAlert
            /\ step' = "PROCESSING_TEXT"
            /\ calls' = Append(calls, [input |-> transcript,
                                       sourceType |-> meta.sourceType,
                                       hasKey |-> hasKey,
                                       meta |-> meta])
    /\ UNCHANGED <<summary, quoteObjs, genTimers>>

\* handleInputComplete whose catch block lacks setStep(AppStep.INPUT)
handleInputCompleteSettledStuck(result) ==
    IF result.resolve
    THEN /\ SetSummaryFresh(result.value)
         /\ step' = "REVIEW_TEXT"
         /\ alertMsg' = NoAlert
    ELSE /\ alertMsg' = AlertAiFailed
         /\ UNCHANGED <<step, summary, quoteObjs>>

\* handleInputComplete without its catch block: a rejection ends the handler
handleInputCompleteSettledNoCatch(result) ==
    IF result.resolve
    THEN /\ SetSummaryFresh(result.value)
         /\ step' = "REVIEW_TEXT"
         /\ alertMsg' = NoAlert
    ELSE /\ alertMsg' = NoAlert
         /\ UNCHANGED <<step, summary, quoteObjs>>

\* handleInputComplete after `await generateContentSummary(...)` settled
handleInputCompleteSettled(result) ==
    IF result.resolve
    THEN /\ SetSummaryFresh(result.value)
         /\ step' = "REVIEW_TEXT"
         /\ alertMsg' = NoAlert
    ELSE /\ alertMsg' = AlertAiFailed
         /\ step' = "INPUT"
         /\ UNCHANGED <<summary, quoteObjs>>

\* ------------------------------------------------- the text of a response
\* the characters of a response text: the backtick, the letters of "json",
\* white space, the braces of the serialized object and what is inside it
\* the backtick character
Backtick == "BACKTICK"

Fence == <<Backtick, Backtick, Backtick>>
JsonFence == Fence \o <<"j", "s", "o", "n">>

\* String.prototype.startsWith, and the same at the end
StartsWith(s, p) == Len(s) >= Len(p) /\ SubSeq(s, 1, Len(p)) = p
EndsWith(s, p) == Len(s) >= Len(p) /\ SubSeq(s, Len(s) - Len(p) + 1, Len(s)) = p

\* s.replace(/^p\s*/, ""), for a literal p
StripStart(s, p) ==
    IF StartsWith(s, p) THEN trimStart(SubSeq(s, Len(p) + 1, Len(s))) ELSE s

\* s.replace(/\s*```$/, "")
StripEndFence(s) ==
    IF EndsWith(s, Fence) THEN trimEnd(SubSeq(s, 1, Len(s) - Len(Fence))) ELSE s

\* the cleanup of services/geminiService.ts: a branch on the prefix
cleanBranch(text) ==
    LET jsonStr == trim(text) IN
    IF StartsWith(jsonStr, JsonFence)
    THEN StripEndFence(StripStart(jsonStr, JsonFence))
    ELSE IF StartsWith(jsonStr, Fence)
    THEN StripEndFence(StripStart(jsonStr, Fence))
    ELSE jsonStr

\* a chained cleanup without its last replace
cleanChainedNoBare(text) ==
    StripEndFence(StripStart(trim(text), JsonFence))

\* the cleanup of the later service: three replaces in a chain
cleanChained(text) ==
    StripStart(StripEndFence(StripStart(trim(text), JsonFence)), Fence)

\* what is between the braces of a serialized Summary: it stands for the
\* title, which can hold backticks and white space
ContentChars == {Backtick, "a", " "}
MaxContent == 3
Contents == SeqsUpTo(ContentChars, MaxContent)

\* JSON.stringify of a Summary, and the Summary of a content
Serialized(c) == <<"{">> \o c \o <<"}">>
SummaryOf(c) ==
    [kind |-> "summary", title |-> c, coreIdea |-> "C", keyPoints |-> <<"k1">>,
     goldenQuotes |-> <<[text |-> "q1", timestamp |-> "00:10"]>>,
     searchImageUrls |-> <<>>]

\* JSON.parse: white space around the value is allowed, anything else around
\* the object is a SyntaxError
JsonParse(str) ==
    LET t == trim(str) IN
    IF /\ Len(t) >= 2 /\ t[1] = "{" /\ t[Len(t)] = "}"
       /\ SubSeq(t, 2, Len(t) - 1) \in Contents
    THEN [ok |-> TRUE, value |-> SummaryOf(SubSeq(t, 2, Len(t) - 1))]
    ELSE [ok |-> FALSE, value |-> Null]

\* the white space a model puts around a fence or around the object
Paddings == {<<>>, <<"\n">>, <<" ", "\n">>}

\* the texts that carry the serialized s: s itself, s in a ```json fence and
\* s in a bare fence, with white space around
Wrappings(s) ==
    {outer \o s \o outer : outer \in Paddings}
    \cup {outer \o open \o inner \o s \o inner \o Fence \o outer :
             open \in {JsonFence, Fence}, inner \in Paddings, outer \in Paddings}

ResponseTexts == UNION {Wrappings(Serialized(c)) : c \in Contents}

\* the two cleanups of the repository
CleanUps == {"branch", "chained"}

\* generateContentSummary from the text of the backend response on
generateContentSummaryOf(text, cleanup) ==
    IF ~Truthy(text) THEN [resolve |-> FALSE, value |-> Null]
    ELSE LET jsonStr == IF cleanup = "branch" THEN cleanBranch(text)
                        ELSE cleanChained(text)
             parsed == JsonParse(jsonStr)
         IN IF parsed.ok THEN [resolve |-> TRUE, value |-> parsed.value]
            ELSE [resolve |-> FALSE, value |-> Null]

\* the call in flight settles with a text that carries a serialized Summary
TextSettles ==
    /\ calls # <<>>
    /\ \E i \in 1..Len(calls) : \E text \in ResponseTexts : \E cleanup \in CleanUps :
        /\ calls[i].hasKey
        /\ calls' = SubSeq(calls, 1, i - 1) \o SubSeq(calls, i + 1, Len(calls))
        /\ lastResp' = [kind |-> "text", value |-> [kind |-> cleanup, text |-> text]]
        /\ handleInputCompleteSettled(generateContentSummaryOf(text, cleanup))
    /\ UNCHANGED <<browserVars, mounted, metadata, genTimers>>
    /\ RenderKeyStep /\ RenderInputStep /\ RenderReview /\ RenderEditor

\* the call in flight settles and the handler that awaits it goes on
GatewaySettles ==
    /\ calls # <<>>
    /\ \E i \in 1..Len(calls) : \E resp \in ResponsesFor(calls[i]) :
        /\ calls' = SubSeq(calls, 1, i - 1) \o SubSeq(calls, i + 1, Len(calls))
        /\ lastResp' = resp
        /\ handleInputCompleteSettled(generateContentSummary(resp))
    /\ UNCHANGED <<browserVars, mounted, metadata, genTimers>>
    /\ RenderKeyStep /\ RenderInputStep /\ RenderReview /\ RenderEditor

\* handleTextReviewComplete without setSummary(updatedSummary)
handleTextReviewCompleteNoStore(updatedSummary) ==
    /\ genTimers < MaxTimers
    /\ step' = "GENERATING_IMAGES"
    /\ genTimers' = genTimers + 1
    /\ UNCHANGED <<summary, metadata, quoteObjs, calls>>

\* const handleTextReviewComplete
handleTextReviewComplete(updatedSummary) ==
    /\ genTimers < MaxTimers
    /\ summary' = updatedSummary
    /\ step' = "GENERATING_IMAGES"
    /\ genTimers' = genTimers + 1
    /\ UNCHANGED <<metadata, quoteObjs, calls>>

\* the callback of setTimeout(..., 1500) in handleTextReviewComplete
GenTimerFires ==
    /\ genTimers > 0
    /\ genTimers' = genTimers - 1
    /\ step' = "RESULT_EDITOR"
    /\ lastResp' = NoResp /\ alertMsg' = NoAlert
    /\ UNCHANGED <<browserVars, mounted, metadata, summary, quoteObjs, calls>>
    /\ RenderKeyStep /\ RenderInputStep /\ RenderReview /\ RenderEditor

\* handleRestart without setMetadata(null)
handleRestartKeepsMetadata ==
    /\ step' = "INPUT"
    /\ summary' = Null
    /\ quoteObjs' = <<>>
    /\ UNCHANGED <<metadata, genTimers, calls>>

\* const handleRestart
handleRestart ==
    /\ step' = "INPUT"
    /\ metadata' = Null
    /\ summary' = Null
    /\ quoteObjs' = <<>>
    /\ UNCHANGED <<genTimers, calls>>

\* ImageGenerationStep's restart button: onRestart
EditorRestart ==
    /\ EditorRendered
    /\ handleRestart
    /\ lastResp' = NoResp /\ alertMsg' = NoAlert
    /\ UNCHANGED <<browserVars, mounted>>
    /\ RenderKeyStep /\ RenderInputStep /\ RenderReview /\ RenderEditor

\* an onBack that goes to the step before RESULT_EDITOR in the enum's order
EditorOnBackPrevStep == step' = "GENERATING_IMAGES"

\* onBack={() => setStep(AppStep.REVIEW_TEXT)}
EditorOnBack == step' = "REVIEW_TEXT"

\* ImageGenerationStep's back button: onBack
EditorBack ==
    /\ EditorRendered
    /\ EditorOnBack
    /\ lastResp' = NoResp /\ alertMsg' = NoAlert
    /\ UNCHANGED <<browserVars, mounted, metadata, summary, quoteObjs, genTimers, calls>>
    /\ RenderKeyStep /\ RenderInputStep /\ RenderReview /\ RenderEditor

\* -------------------------------------------------------- ApiKeyInputStep
\* step === AppStep.API_KEY_INPUT: ApiKeyInputStep is rendered
KeyStepRendered == mounted /\ step = "API_KEY_INPUT"

\* the latest step is not one of App's: it delivers no response and no alert
Quiet == lastResp' = NoResp /\ alertMsg' = NoAlert

\* onChange of the key input
SetApiKey ==
    /\ KeyStepRendered
    /\ \E v \in TypedTexts : apiKey' = v
    /\ error' = NoAlert
    /\ Quiet
    /\ UNCHANGED <<browserVars, mounted, step, metadata, summary, genTimers, calls,
                   quoteObjs, isValidating, success, validations, completeTimers,
                   inputStepVars, data, editorVars>>

\* const handleValidate, up to its await
handleValidate ==
    IF trim(apiKey) = <<>>
    THEN /\ error' = ErrorKeyBlank
         /\ UNCHANGED <<isValidating, validations>>
    ELSE /\ isValidating' = TRUE
         /\ error' = NoAlert
         /\ validations' = Append(validations, apiKey)

\* the validate button: disabled={isValidating || success}
ValidateClick ==
    /\ KeyStepRendered
    /\ ~(isValidating \/ success)
    /\ handleValidate
    /\ Quiet
    /\ UNCHANGED <<browserVars, mounted, step, metadata, summary, genTimers, calls,
                   quoteObjs, apiKey, success, completeTimers, inputStepVars, data, editorVars>>

\* a handleValidate that stores the content of the field at the time the
\* validation settles
handleValidateSettledStoresField(key, isValid) ==
    IF isValid
    THEN /\ success' = TRUE
         /\ storedKey' = apiKey
         /\ completeTimers' = completeTimers + 1
         /\ UNCHANGED <<error, isValidating>>
    ELSE /\ error' = ErrorKeyInvalid
         /\ isValidating' = FALSE
         /\ UNCHANGED <<success, storedKey, completeTimers>>

\* handleValidate after `await validateApiKey(apiKey)`; validateApiKey returns
\* true when its trial call succeeds and false when it throws
handleValidateSettled(key, isValid) ==
    IF isValid
    THEN /\ success' = TRUE
         /\ storedKey' = key
         /\ completeTimers' = completeTimers + 1
         /\ UNCHANGED <<error, isValidating>>
    ELSE /\ error' = ErrorKeyInvalid
         /\ isValidating' = FALSE
         /\ UNCHANGED <<success, storedKey, completeTimers>>

\* what the trial call of validateApiKey can do: succeed or throw
TrialOutcomes == {"ok", "throw"}

\* a validateApiKey whose trial call is outside the try block
validateApiKeyNoCatch(outcome) == [resolve |-> outcome = "ok", value |-> TRUE]

\* export const validateApiKey: resolve = TRUE with the value it returns
validateApiKey(outcome) == [resolve |-> TRUE, value |-> outcome = "ok"]

\* the validation in flight settles and handleValidate goes on; a rejected
\* await would end the handler there
ValidationSettles ==
    /\ validations # <<>>
    /\ \E i \in 1..Len(validations) : \E outcome \in TrialOutcomes :
        LET result == validateApiKey(outcome) IN
        /\ validations' = SubSeq(validations, 1, i - 1)
                          \o SubSeq(validations, i + 1, Len(validations))
        /\ lastResp' = [kind |-> "validate", value |-> [kind |-> outcome]]
        /\ IF result.resolve
           THEN handleValidateSettled(validations[i], result.value)
           ELSE UNCHANGED <<error, isValidating, success, storedKey, completeTimers>>
    /\ alertMsg' = NoAlert
    /\ UNCHANGED <<envKey, html2canvas, mounted, step, metadata, summary, genTimers,
                   calls, quoteObjs, apiKey, inputStepVars, data, editorVars>>

\* the callback of setTimeout(..., 1000) in handleValidate: onComplete()
CompleteTimerFires ==
    /\ completeTimers > 0
    /\ handleApiKeyComplete
    /\ Quiet
    /\ UNCHANGED <<browserVars, mounted>>
    /\ RenderKeyStep /\ RenderInputStep /\ RenderReview /\ RenderEditor

\* --------------------------------------------------------------- InputStep
\* InputStep left on screen behind the loading view
InputRenderedWhileProcessing == mounted /\ step \in {"INPUT", "PROCESSING_TEXT"}

\* step === AppStep.INPUT: InputStep is rendered
InputRendered == mounted /\ step = "INPUT"

\* a step inside InputStep: App and the other components keep their state
InputStepOnly ==
    /\ Quiet
    /\ UNCHANGED <<browserVars, mounted, step, metadata, summary, genTimers, calls,
                   quoteObjs, keyStepVars, data, editorVars>>

\* the three tab buttons
SetActiveTab ==
    /\ InputRendered
    /\ \E t \in InputSourceType : activeTab' = t
    /\ InputStepOnly
    /\ UNCHANGED <<videoFile, videoContext, imageUrls, imageContext, searchQuery,
                   isSearching, searchResults, selectedResultIds, searchCalls>>

\* const handleVideoUpload, with a file chosen
handleVideoUpload ==
    /\ InputRendered /\ activeTab = "VIDEO"
    /\ videoFile' = TRUE
    /\ InputStepOnly
    /\ UNCHANGED <<activeTab, videoContext, imageUrls, imageContext, searchQuery,
                   isSearching, searchResults, selectedResultIds, searchCalls>>

\* onChange of the video description
SetVideoContext ==
    /\ InputRendered /\ activeTab = "VIDEO"
    /\ \E v \in TypedTexts : videoContext' = v
    /\ InputStepOnly
    /\ UNCHANGED <<activeTab, videoFile, imageUrls, imageContext, searchQuery,
                   isSearching, searchResults, selectedResultIds, searchCalls>>

\* URL.createObjectURL: a URL no live image has
FreshUrl(urls) == CHOOSE u \in 1..(Len(urls) + 1) : \A i \in 1..Len(urls) : urls[i] # u

RECURSIVE AppendFresh(_, _)
AppendFresh(urls, n) ==
    IF n = 0 THEN urls ELSE AppendFresh(Append(urls, FreshUrl(urls)), n - 1)

\* const handleImageUpload, with n files chosen
handleImageUpload ==
    /\ InputRendered /\ activeTab = "IMAGES"
    /\ \E n \in 1..MaxImages :
        /\ Len(imageUrls) + n <= MaxImages
        /\ imageUrls' = AppendFresh(imageUrls, n)
    /\ InputStepOnly
    /\ UNCHANGED <<activeTab, videoFile, videoContext, imageContext, searchQuery,
                   isSearching, searchResults, selectedResultIds, searchCalls>>

\* const removeImage
removeImage ==
    /\ InputRendered /\ activeTab = "IMAGES"
    /\ \E index \in 1..Len(imageUrls) :
        imageUrls' = SubSeq(imageUrls, 1, index - 1)
                     \o SubSeq(imageUrls, index + 1, Len(imageUrls))
    /\ InputStepOnly
    /\ UNCHANGED <<activeTab, videoFile, videoContext, imageContext, searchQuery,
                   isSearching, searchResults, selectedResultIds, searchCalls>>

\* onChange of the caption
SetImageContext ==
    /\ InputRendered /\ activeTab = "IMAGES"
    /\ \E v \in TypedTexts : imageContext' = v
    /\ InputStepOnly
    /\ UNCHANGED <<activeTab, videoFile, videoContext, imageUrls, searchQuery,
                   isSearching, searchResults, selectedResultIds, searchCalls>>

\* onChange of the search box
SetSearchQuery ==
    /\ InputRendered /\ activeTab = "SEARCH"
    /\ \E v \in QueryTexts : searchQuery' = v
    /\ InputStepOnly
    /\ UNCHANGED <<activeTab, videoFile, videoContext, imageUrls, imageContext,
                   isSearching, searchResults, selectedResultIds, searchCalls>>

\* const performSearch, up to its await
performSearchUpTo(n) ==
    IF trim(searchQuery) = <<>>
    THEN UNCHANGED <<isSearching, searchResults, selectedResultIds, searchCalls>>
    ELSE /\ Len(searchCalls) < n
         /\ isSearching' = TRUE
         /\ searchResults' = <<>>
         /\ selectedResultIds' = {}
         /\ searchCalls' = Append(searchCalls, [query |-> searchQuery, hasKey |-> hasKey])

performSearch == performSearchUpTo(MaxSearchCalls)

\* the search button: disabled={isSearching || !searchQuery}
SearchClick ==
    /\ InputRendered /\ activeTab = "SEARCH"
    /\ ~(isSearching \/ ~Truthy(searchQuery))
    /\ performSearch
    /\ InputStepOnly
    /\ UNCHANGED <<activeTab, videoFile, videoContext, imageUrls, imageContext, searchQuery>>

\* onKeyDown={(e) => e.key === 'Enter' && performSearch()}
SearchEnterUpTo(n) ==
    /\ InputRendered /\ activeTab = "SEARCH"
    /\ performSearchUpTo(n)
    /\ InputStepOnly
    /\ UNCHANGED <<activeTab, videoFile, videoContext, imageUrls, imageContext, searchQuery>>

SearchEnter == SearchEnterUpTo(MaxSearchCalls)

\* the Enter key in the search intake, with up to MaxSearches requests in flight
SearchEnterAgain == SearchEnterUpTo(MaxSearches)

\* the result lists a backend search can yield (ids of the items)
BackendResults == {<<>>, <<"1">>, <<"1", "2">>}

\* the built-in demo results of searchTopic
MockResults == <<"1", "2", "3">>

\* what the backend call of searchTopic can do: throw, answer with no text,
\* with text JSON.parse rejects, with text that parses to something that is
\* not an array, or with an array of results
SearchFailures == {"throw", "empty", "unparseable", "notArray"}
SearchResponses ==
    {[kind |-> k, value |-> <<>>] : k \in SearchFailures}
    \cup {[kind |-> "array", value |-> r] : r \in BackendResults}

\* the responses a search can get: the demo results without a stored key
SearchResponsesFor(call) ==
    IF call.hasKey THEN SearchResponses ELSE {[kind |-> "mock", value |-> MockResults]}

\* "搜索失败，请重试"
AlertSearchFailed == "search failed"

\* searchTopic without its try/catch around the backend call
searchTopicNoCatch(resp) ==
    [resolve |-> resp.kind # "throw",
     value |-> IF resp.kind \in {"array", "mock"} THEN resp.value ELSE <<>>]

\* searchTopic settles: resolve = TRUE with the list it returns, resolve =
\* FALSE when it throws
searchTopic(resp) ==
    [resolve |-> TRUE,
     value |-> IF resp.kind \in {"array", "mock"} THEN resp.value ELSE <<>>]

\* performSearch after `await searchTopic(...)`: try, catch, finally
performSearchSettled(result) ==
    /\ IF result.resolve
       THEN searchResults' = result.value /\ alertMsg' = NoAlert
       ELSE alertMsg' = AlertSearchFailed /\ UNCHANGED searchResults
    /\ isSearching' = FALSE

\* a search in flight settles and the handler that awaits it goes on
SearchSettles ==
    /\ InputRendered
    /\ searchCalls # <<>>
    /\ \E i \in 1..Len(searchCalls) : \E resp \in SearchResponsesFor(searchCalls[i]) :
        /\ searchCalls' = SubSeq(searchCalls, 1, i - 1)
                          \o SubSeq(searchCalls, i + 1, Len(searchCalls))
        /\ lastResp' = [kind |-> "search", value |-> [kind |-> resp.kind]]
        /\ performSearchSettled(searchTopic(resp))
    /\ UNCHANGED <<browserVars, mounted, step, metadata, summary, genTimers, calls,
                   quoteObjs, keyStepVars, data, editorVars>>
    /\ UNCHANGED <<activeTab, videoFile, videoContext, imageUrls, imageContext,
                   searchQuery, selectedResultIds>>

\* const toggleResultSelection, from a click on a listed result
toggleResultSelection ==
    /\ InputRendered /\ activeTab = "SEARCH" /\ ~isSearching
    /\ \E i \in 1..Len(searchResults) :
        LET id == searchResults[i] IN
        selectedResultIds' = IF id \in selectedResultIds
                             THEN selectedResultIds \ {id}
                             ELSE selectedResultIds \cup {id}
    /\ InputStepOnly
    /\ UNCHANGED <<activeTab, videoFile, videoContext, imageUrls, imageContext,
                   searchQuery, isSearching, searchResults, searchCalls>>

\* Array.prototype.join("\n\n") of the blocks
RECURSIVE join(_)
join(blocks) ==
    IF blocks = <<>> THEN <<>>
    ELSE IF Len(blocks) = 1 THEN blocks
    ELSE <<Head(blocks), "\n">> \o join(Tail(blocks))

\* the aggregated text of the selected results: one block per listed item
\* whose id is selected
aggregatedText ==
    join(SelectSeq(searchResults, LAMBDA id : id \in selectedResultIds))

Meta(sourceType, fileUrl, uploadedImages) ==
    [kind |-> "meta", sourceType |-> sourceType, fileUrl |-> fileUrl,
     uploadedImages |-> uploadedImages]

\* return alert(...): nothing of App is touched
SubmitRejected(msg) ==
    /\ alertMsg' = msg
    /\ UNCHANGED <<step, metadata, summary, quoteObjs, genTimers, calls>>

\* handleSubmit without the check of the IMAGES branch
handleSubmitNoImagesCheck ==
    IF activeTab = "VIDEO"
    THEN IF ~videoFile /\ ~Truthy(videoContext)
         THEN SubmitRejected(AlertVideoMissing)
         ELSE handleInputComplete(
                  Meta("VIDEO", videoFile, <<>>),
                  IF Truthy(videoContext) THEN videoContext ELSE VideoFallbackText)
    ELSE IF activeTab = "IMAGES"
    THEN handleInputComplete(Meta("IMAGES", FALSE, imageUrls), imageContext)
    ELSE IF Cardinality(selectedResultIds) = 0
         THEN SubmitRejected(AlertSearchMissing)
         ELSE handleInputComplete(Meta("SEARCH", FALSE, <<>>), aggregatedText)

\* const handleSubmit; onNext is App's handleInputComplete
handleSubmit ==
    IF activeTab = "VIDEO"
    THEN IF ~videoFile /\ ~Truthy(videoContext)
         THEN SubmitRejected(AlertVideoMissing)
         ELSE handleInputComplete(
                  Meta("VIDEO", videoFile, <<>>),
                  IF Truthy(videoContext) THEN videoContext ELSE VideoFallbackText)
    ELSE IF activeTab = "IMAGES"
    THEN IF Len(imageUrls) = 0 /\ ~Truthy(imageContext)
         THEN SubmitRejected(AlertImagesMissing)
         ELSE handleInputComplete(Meta("IMAGES", FALSE, imageUrls), imageContext)
    ELSE IF Cardinality(selectedResultIds) = 0
         THEN SubmitRejected(AlertSearchMissing)
         ELSE handleInputComplete(Meta("SEARCH", FALSE, <<>>), aggregatedText)

\* the submit button: disabled={activeTab === 'SEARCH' && selectedResultIds.length === 0}
SubmitClick ==
    /\ InputRendered
    /\ ~(activeTab = "SEARCH" /\ Cardinality(selectedResultIds) = 0)
    /\ handleSubmit
    /\ lastResp' = NoResp
    /\ UNCHANGED <<browserVars, mounted>>
    /\ RenderKeyStep /\ RenderInputStep /\ RenderReview /\ RenderEditor

\* ---------------------------------------------------------- TextReviewStep
\* a step inside TextReviewStep
ReviewOnly ==
    /\ Quiet
    /\ UNCHANGED <<browserVars, mounted, step, metadata, summary, genTimers, calls,
                   keyStepVars, inputStepVars, editorVars>>

ReviewEditable == ReviewRendered /\ ~ReviewCrashed

\* const updateField, from the title input and the coreIdea textarea
updateField ==
    /\ ReviewEditable
    /\ \E field \in {"title", "coreIdea"} : \E value \in EditTexts :
        data' = [data EXCEPT ![field] = value]
    /\ ReviewOnly
    /\ UNCHANGED quoteObjs

\* handlePointChange that writes the value over the whole list
handlePointChangeReplacesList ==
    /\ ReviewEditable
    /\ \E index \in 1..Len(data.keyPoints) : \E val \in EditTexts :
        data' = [data EXCEPT !.keyPoints = <<val>>]
    /\ ReviewOnly
    /\ UNCHANGED quoteObjs

\* const handlePointChange
handlePointChange ==
    /\ ReviewEditable
    /\ \E index \in 1..Len(data.keyPoints) : \E val \in EditTexts :
        data' = [data EXCEPT !.keyPoints = [data.keyPoints EXCEPT ![index] = val]]
    /\ ReviewOnly
    /\ UNCHANGED quoteObjs

\* onChange of a quote textarea: newQuotes = [...data.goldenQuotes] copies the
\* references, newQuotes[idx].text = ... writes the Quote object itself
QuoteOnChange ==
    /\ ReviewEditable
    /\ \E idx \in 1..Len(data.goldenQuotes) : \E val \in EditTexts :
        quoteObjs' = [quoteObjs EXCEPT ![data.goldenQuotes[idx]].text = val]
    /\ data' = data
    /\ ReviewOnly

\* onClick={() => onNext(data)}
ReviewNext ==
    /\ ReviewEditable
    /\ handleTextReviewComplete(data)
    /\ Quiet
    /\ UNCHANGED <<browserVars, mounted>>
    /\ RenderKeyStep /\ RenderInputStep /\ RenderReview /\ RenderEditor

\* onBack={() => setStep(AppStep.INPUT)}
ReviewOnBack == step' = "INPUT"

\* TextReviewStep's back button: onBack
ReviewBack ==
    /\ ReviewEditable
    /\ ReviewOnBack
    /\ Quiet
    /\ UNCHANGED <<browserVars, mounted, metadata, summary, quoteObjs, genTimers, calls>>
    /\ RenderKeyStep /\ RenderInputStep /\ RenderReview /\ RenderEditor

\* ------------------------------------------------------ ImageGenerationStep
\* the templates the user picks, of the eleven of type InfographicStyle
Templates == {"COVER", "MINIMAL", "GRADIENT"}

\* the ids of the DeletableWidget elements a template renders
\* (STITCH: renderSubtitleStitch, its first two strips stand for the three)
Widgets(t) ==
    IF t = "COVER" THEN {"cover-header", "cover-center", "cover-list"}
    ELSE IF t = "MINIMAL" THEN {"minimal-container"}
    ELSE IF t = "STITCH" THEN {"stitch-sub-0", "stitch-sub-1"}
    ELSE {"grad-container"}

WidgetIds == UNION {Widgets(t) : t \in Templates \cup {"STITCH"}}

\* what the preview renders: renderSubtitleStitch() or the template
Layout == IF activeMode = "SUBTITLE_STITCH" THEN "STITCH" ELSE infoStyle

\* the place of a widget in the tree of its template. COVER: children 2, 3, 4
\* of the root; MINIMAL and GRADIENT: child 1 of the root; the strips of
\* renderSubtitleStitch: inside the second child of the root (5). React keeps the
\* state of a component that is at the same place, with the same type, before
\* and after a render.
WidgetPlace(id) ==
    IF id = "cover-header" THEN 2
    ELSE IF id = "cover-center" THEN 3
    ELSE IF id = "cover-list" THEN 4
    ELSE IF id = "stitch-sub-0" THEN 5
    ELSE IF id = "stitch-sub-1" THEN 6
    ELSE 1

PlacesOf(t) == {WidgetPlace(id) : id \in Widgets(t)}

\* the paths of the EditableText blocks inside a widget (the first keyPoint
\* stands for the list)
TextsIn(id) ==
    IF id = "cover-header" THEN {"title"}
    ELSE IF id = "cover-center" THEN {"coreIdea"}
    ELSE IF id \in {"cover-list", "stitch-sub-0"} THEN {"keyPoints.0"}
    ELSE IF id = "stitch-sub-1" THEN {"keyPoints.1"}
    ELSE IF id = "grad-container" THEN {"title", "keyPoints.0"}
    ELSE {"title", "coreIdea", "keyPoints.0"}

TextPaths == UNION {TextsIn(id) : id \in WidgetIds}

\* the EditableImage slots a template shows with controls, outside any widget
ImagesOf(t) ==
    IF t \in {"COVER", "STITCH"} THEN {"hero"} ELSE {}

\* the colorOverride prop a template gives a text block ("": none)
ColorOverride(t, path) ==
    IF t = "COVER" THEN (IF path = "coreIdea" THEN highlightColor ELSE "")
    ELSE IF t = "STITCH" THEN highlightColor
    ELSE IF t = "MINIMAL" THEN (IF path = "title" THEN "#18181b"
                                ELSE IF path = "coreIdea" THEN "#52525b" ELSE "#27272a")
    ELSE "#fff"

\* the values the user picks in the style panel
FontChoices == {"SERIF"}
ColorChoices == {"#EF4444"}
FontSizeChoices == {48}

\* the values Math.floor(Math.random() * 5000) yields
RandomSeeds == {0, 5}

\* the clientX, clientY of mouse events
Clients == {<<0, 0>>, <<1, 0>>}

\* the entry of elementStyles for an id; a missing entry reads as undefined
NoStyle == [fontSize |-> 0, color |-> "", fontFamily |-> ""]
StyleOf(id) == IF id \in DOMAIN elementStyles THEN elementStyles[id] ELSE NoStyle

\* const getImageUrl
getImageUrl(seedKey) ==
    IF customImages[seedKey] # NoImage THEN customImages[seedKey]
    ELSE Picsum(imageSeeds[seedKey])

\* DeletableWidget: `if (isHidden) return null`
WidgetShown(id) == id \in Widgets(Layout) /\ id \notin hiddenFields

\* EditableText: the block of a path is on screen inside a shown widget
TextShown(path) ==
    /\ path \notin hiddenFields
    /\ \E id \in Widgets(Layout) : WidgetShown(id) /\ path \in TextsIn(id)

\* a text block that takes the override of whatever is selected
TextStyleOfSelected(path) ==
    LET customStyle == StyleOf(selectedElementId) IN
    [fontSize |-> customStyle.fontSize,
     color |-> IF customStyle.color # "" THEN customStyle.color ELSE textColor,
     fontFamily |-> IF customStyle.fontFamily # "" THEN customStyle.fontFamily
                    ELSE activeFont]

\* EditableText: fontSizeStyle, finalColor, fontClass of a block
TextStyle(path) ==
    LET customStyle == StyleOf(path)
        colorOverride == ColorOverride(Layout, path) IN
    [fontSize |-> customStyle.fontSize,
     color |-> IF customStyle.color # "" THEN customStyle.color
               ELSE IF colorOverride # "" THEN colorOverride ELSE textColor,
     fontFamily |-> IF customStyle.fontFamily # "" THEN customStyle.fontFamily
                    ELSE activeFont]

\* what renderInfographic puts on screen: the widgets that are not hidden
\* and, for each text block inside them, its font size, colour and font
RenderedOutput ==
    [widgets |-> {id \in Widgets(Layout) : WidgetShown(id)},
     texts |-> [path \in {q \in TextPaths : TextShown(q)} |-> TextStyle(path)]]

\* a step inside ImageGenerationStep: App and the other components keep theirs
AppKeeps ==
    UNCHANGED <<browserVars, mounted, step, metadata, summary, genTimers, calls,
                quoteObjs, keyStepVars, inputStepVars, data>>

\* a step on the preview or the panels: the editor's text, its mode and its
\* export button keep theirs too
EditorOnly ==
    /\ Quiet
    /\ AppKeeps
    /\ UNCHANGED sessionVars

\* the editor is on screen and no mouse button is held
EditorIdle == EditorRendered /\ pressed = NoPress

\* the template buttons: onClick={() => setInfoStyle(t)}; a widget instance
\* survives at a place both templates fill, the others unmount
SetInfoStyle ==
    /\ EditorIdle /\ activeMode = "INFOGRAPHIC"
    /\ \E t \in Templates :
        LET kept == PlacesOf(infoStyle) \cap PlacesOf(t) IN
        /\ infoStyle' = t
        /\ position' = [p \in Places |-> IF p \in kept THEN position[p] ELSE Origin]
        /\ isDragging' = [p \in Places |-> IF p \in kept THEN isDragging[p] ELSE FALSE]
        /\ dragRef' = [p \in Places |-> IF p \in kept THEN dragRef[p] ELSE NoDrag]
        /\ lastEdit' = [op |-> "setInfoStyle", id |-> ""]
    /\ EditorOnly
    /\ UNCHANGED <<hiddenFields, selectedElementId, elementStyles, activeFont,
                   textColor, highlightColor, imageVars, pressed>>

\* mousedown on a shown widget, on its body, its delete button or a text
\* block inside it: useDraggable's onMouseDown, then onSelect(id)
WidgetMouseDownOn(ids, clients) ==
    /\ EditorIdle
    /\ \E id \in Widgets(Layout) \cap ids : \E target \in {"body", "delete"} \cup TextsIn(id) :
       \E e \in clients :
        LET p == WidgetPlace(id) IN
        /\ WidgetShown(id)
        /\ target = "delete" => Cardinality(hiddenFields) < MaxHidden
        /\ (dragRef[p] # NoDrag
            \/ Cardinality({q \in Places : dragRef[q] # NoDrag}) < MaxPressed)
        /\ isDragging' = [isDragging EXCEPT ![p] = TRUE]
        /\ dragRef' = [dragRef EXCEPT ![p] = [start |-> e, initial |-> position[p]]]
        /\ selectedElementId' = id
        /\ pressed' = [id |-> id, target |-> target]
        /\ lastEdit' = [op |-> "mousedown", id |-> ""]
    /\ EditorOnly
    /\ UNCHANGED <<infoStyle, hiddenFields, elementStyles, activeFont, textColor,
                   highlightColor, imageVars, position>>

\* a press on any widget
WidgetMouseDownAt(clients) == WidgetMouseDownOn(WidgetIds, clients)

\* a press anywhere
WidgetMouseDown == WidgetMouseDownAt(Clients)

\* a press with the pointer where it rests while nothing is dragged
WidgetPress == WidgetMouseDownAt({Origin})

\* the position useDraggable's onMouseMove sets for the event at e
Dragged(ref, e) ==
    <<ref.initial[1] + (e[1] - ref.start[1]), ref.initial[2] + (e[2] - ref.start[2])>>

InReach(pos) ==
    /\ pos[1] \in -MaxOffset..MaxOffset
    /\ pos[2] \in -MaxOffset..MaxOffset

\* mousemove on window, heard by the widgets whose isDragging is set
onMouseMove ==
    /\ EditorRendered
    /\ \E p \in Places : isDragging[p]
    /\ \E e \in Clients :
        /\ \A p \in Places : isDragging[p] => InReach(Dragged(dragRef[p], e))
        /\ position' = [p \in Places |->
                            IF isDragging[p] THEN Dragged(dragRef[p], e) ELSE position[p]]
        /\ lastEdit' = [op |-> "mousemove", id |-> ""]
    /\ EditorOnly
    /\ UNCHANGED <<styleVars, imageVars, isDragging, dragRef, pressed>>

\* the button is released: mouseup on window (useDraggable's onMouseUp), then
\* the click event on what was pressed. On the delete button: stopPropagation
\* and onDelete(id). On a text block: stopPropagation and
\* setSelectedElementId(path). On the body of a widget: no handler of the
\* widget, the click bubbles to the preview container, which clears the
\* selection.
onMouseUp ==
    /\ EditorRendered
    /\ pressed # NoPress
    /\ isDragging' = [p \in Places |-> FALSE]
    /\ IF pressed.target = "delete"
       THEN /\ hiddenFields' = hiddenFields \cup {pressed.id}
            /\ UNCHANGED selectedElementId
       ELSE /\ selectedElementId' = IF pressed.target = "body" THEN "" ELSE pressed.target
            /\ UNCHANGED hiddenFields
    /\ pressed' = NoPress
    /\ lastEdit' = [op |-> "click", id |-> pressed.target]
    /\ EditorOnly
    /\ UNCHANGED <<infoStyle, elementStyles, activeFont, textColor, highlightColor,
                   imageVars, position, dragRef>>

\* a click on the preview outside every element: the container's onClick
ContainerClick ==
    /\ EditorIdle
    /\ selectedElementId' = ""
    /\ lastEdit' = [op |-> "containerClick", id |-> ""]
    /\ EditorOnly
    /\ UNCHANGED <<infoStyle, hiddenFields, elementStyles, activeFont, textColor,
                   highlightColor, imageVars, widgetVars>>

\* the reset button of the style panel, shown while an element is selected
ResetSelection ==
    /\ EditorIdle
    /\ selectedElementId # ""
    /\ selectedElementId' = ""
    /\ lastEdit' = [op |-> "resetSelection", id |-> ""]
    /\ EditorOnly
    /\ UNCHANGED <<infoStyle, hiddenFields, elementStyles, activeFont, textColor,
                   highlightColor, imageVars, widgetVars>>

\* const updateElementStyle
updateElementStyle(prop, value) ==
    IF selectedElementId = ""
    THEN UNCHANGED elementStyles
    ELSE /\ (selectedElementId \in DOMAIN elementStyles
             \/ Cardinality(DOMAIN elementStyles) < MaxStyled)
         /\ elementStyles' =
                [id \in DOMAIN elementStyles \cup {selectedElementId} |->
                    IF id = selectedElementId
                    THEN [StyleOf(id) EXCEPT ![prop] = value]
                    ELSE elementStyles[id]]

\* the font-size slider, shown while an element is selected
FontSizeChange ==
    /\ EditorIdle
    /\ selectedElementId # ""
    /\ \E value \in FontSizeChoices :
        /\ updateElementStyle("fontSize", value)
        /\ lastEdit' = [op |-> "fontSize", id |-> ""]
    /\ EditorOnly
    /\ UNCHANGED <<infoStyle, hiddenFields, selectedElementId, activeFont, textColor,
                   highlightColor, imageVars, widgetVars>>

\* the font buttons:
\* selectedElementId ? updateElementStyle('fontFamily', key) : setActiveFont(key)
FontClick ==
    /\ EditorIdle
    /\ \E key \in FontChoices :
        /\ IF selectedElementId # ""
           THEN updateElementStyle("fontFamily", key) /\ UNCHANGED activeFont
           ELSE activeFont' = key /\ UNCHANGED elementStyles
        /\ lastEdit' = [op |-> "fontFamily", id |-> ""]
    /\ EditorOnly
    /\ UNCHANGED <<infoStyle, hiddenFields, selectedElementId, textColor,
                   highlightColor, imageVars, widgetVars>>

\* colour buttons that set the main colour as well as the element's colour
ColorClickAlsoGlobal ==
    /\ EditorIdle
    /\ \E c \in ColorChoices :
        /\ textColor' = c
        /\ IF selectedElementId # ""
           THEN updateElementStyle("color", c)
           ELSE UNCHANGED elementStyles
        /\ lastEdit' = [op |-> "color", id |-> ""]
    /\ EditorOnly
    /\ UNCHANGED <<infoStyle, hiddenFields, selectedElementId, activeFont,
                   highlightColor, imageVars, widgetVars>>

\* the colour buttons:
\* selectedElementId ? updateElementStyle('color', c.value) : setTextColor(c.value)
ColorClick ==
    /\ EditorIdle
    /\ \E c \in ColorChoices :
        /\ IF selectedElementId # ""
           THEN updateElementStyle("color", c) /\ UNCHANGED textColor
           ELSE textColor' = c /\ UNCHANGED elementStyles
        /\ lastEdit' = [op |-> "color", id |-> ""]
    /\ EditorOnly
    /\ UNCHANGED <<infoStyle, hiddenFields, selectedElementId, activeFont,
                   highlightColor, imageVars, widgetVars>>

\* the highlight colour buttons, shown while nothing is selected
HighlightClick ==
    /\ EditorIdle
    /\ selectedElementId = ""
    /\ \E c \in ColorChoices : highlightColor' = c
    /\ lastEdit' = [op |-> "highlight", id |-> ""]
    /\ EditorOnly
    /\ UNCHANGED <<infoStyle, hiddenFields, selectedElementId, elementStyles,
                   activeFont, textColor, imageVars, widgetVars>>

\* refreshImage that draws a new seed in both cases
refreshImageAlwaysReseeds(key) ==
    /\ customImages' = [customImages EXCEPT ![key] = NoImage]
    /\ \E newSeed \in RandomSeeds : imageSeeds' = [imageSeeds EXCEPT ![key] = newSeed]

\* const refreshImage
refreshImage(key) ==
    IF customImages[key] # NoImage
    THEN /\ customImages' = [customImages EXCEPT ![key] = NoImage]
         /\ UNCHANGED imageSeeds
    ELSE /\ \E newSeed \in RandomSeeds :
                imageSeeds' = [imageSeeds EXCEPT ![key] = newSeed]
         /\ UNCHANGED customImages

\* the refresh button over an image: stopPropagation, refreshImage(seedKey)
RefreshClick ==
    /\ EditorIdle
    /\ \E key \in ImagesOf(Layout) :
        /\ refreshImage(key)
        /\ lastEdit' = [op |-> "refreshImage", id |-> key]
    /\ EditorOnly
    /\ UNCHANGED <<styleVars, widgetVars>>

\* the object URLs in use: URL.createObjectURL yields one that is none of them
BlobsInUse ==
    {customImages[k].id : k \in {j \in SeedKey : customImages[j].kind = "blob"}}
    \cup {0} \cup {metadata.uploadedImages[i] : i \in 1..Len(metadata.uploadedImages)}

EditorUploads ==
    {k \in SeedKey : /\ customImages[k].kind = "blob"
                     /\ customImages[k] # initialImages(metadata, summary)[k]}

\* const handleImageUpload of ImageGenerationStep
handleImageUploadSlot(key) ==
    LET url == Blob(CHOOSE n \in 1..(Cardinality(BlobsInUse) + 1) : n \notin BlobsInUse) IN
    customImages' = [customImages EXCEPT ![key] = url]

\* the upload button over an image and the file chosen: the click() on the
\* hidden input bubbles to the preview container, which clears the selection;
\* the input's onChange calls handleImageUpload(seedKey, file)
UploadClick ==
    /\ EditorIdle
    /\ \E key \in ImagesOf(Layout) :
        /\ Cardinality(EditorUploads \ {key}) < MaxUploads
        /\ handleImageUploadSlot(key)
        /\ lastEdit' = [op |-> "handleImageUpload", id |-> key]
    /\ selectedElementId' = ""
    /\ EditorOnly
    /\ UNCHANGED <<infoStyle, hiddenFields, elementStyles, activeFont, textColor,
                   highlightColor, imageSeeds, widgetVars>>

\* shuffleAllImages that clears the images whatever the source type
shuffleAllImagesClearsAll ==
    /\ customImages' = NoImages
    /\ imageSeeds' \in [SeedKey -> RandomSeeds]

\* const shuffleAllImages
shuffleAllImages ==
    /\ customImages' = IF metadata.sourceType = "IMAGES" THEN NoImages ELSE customImages
    /\ imageSeeds' \in [SeedKey -> RandomSeeds]

\* the shuffle-images button
ShuffleImagesClick ==
    /\ EditorIdle
    /\ shuffleAllImages
    /\ lastEdit' = [op |-> "shuffleAllImages", id |-> ""]
    /\ EditorOnly
    /\ UNCHANGED <<styleVars, widgetVars>>

\* enum ImageMode
Modes == {"INFOGRAPHIC", "SUBTITLE_STITCH"}

\* mode buttons that also bring back every deleted element
SetActiveModeShowsAll ==
    /\ EditorIdle
    /\ \E m \in Modes :
        /\ activeMode' = m
        /\ IF m = activeMode
           THEN UNCHANGED <<position, isDragging, dragRef>>
           ELSE /\ position' = [p \in Places |-> Origin]
                /\ isDragging' = [p \in Places |-> FALSE]
                /\ dragRef' = [p \in Places |-> NoDrag]
    /\ hiddenFields' = {}
    /\ lastEdit' = [op |-> "setActiveMode", id |-> ""]
    /\ Quiet /\ AppKeeps
    /\ UNCHANGED <<infoStyle, selectedElementId, elementStyles, activeFont, textColor,
                   highlightColor, imageVars, pressed, localSummary, downloadLabel,
                   downloads>>

\* the mode buttons: onClick={() => setActiveMode(m)}. The trees of
\* renderSubtitleStitch and of the templates share no widget place: the
\* widgets of the mode that is left unmount.
SetActiveMode ==
    /\ EditorIdle
    /\ \E m \in Modes :
        /\ activeMode' = m
        /\ IF m = activeMode
           THEN UNCHANGED <<position, isDragging, dragRef>>
           ELSE /\ position' = [p \in Places |-> Origin]
                /\ isDragging' = [p \in Places |-> FALSE]
                /\ dragRef' = [p \in Places |-> NoDrag]
    /\ lastEdit' = [op |-> "setActiveMode", id |-> ""]
    /\ Quiet /\ AppKeeps
    /\ UNCHANGED <<styleVars, imageVars, pressed, localSummary, downloadLabel, downloads>>

\* newPoints[idx] = value on a copy of the array: an index one past the end
\* makes the array longer
AssignAt(points, i, value) ==
    IF i <= Len(points) THEN [points EXCEPT ![i] = value] ELSE Append(points, value)

\* parseInt(parts[1]) of a path keyPoints.<idx>, counted from 1
PointIndex == [path \in {"keyPoints.0", "keyPoints.1"} |->
                  IF path = "keyPoints.0" THEN 1 ELSE 2]

\* const updateLocalText: path.split('.') has one part (a field of the
\* Summary) or is keyPoints.<idx>; only setLocalSummary is called
updateLocalText(path, value) ==
    localSummary' = IF path \in DOMAIN PointIndex
                    THEN [localSummary EXCEPT
                             !.keyPoints = AssignAt(localSummary.keyPoints,
                                                    PointIndex[path], value)]
                    ELSE [localSummary EXCEPT ![path] = value]

\* the contentEditable block of a path is on screen: the templates map over
\* the keyPoints there are, renderSubtitleStitch shows a placeholder for a
\* missing one (the placeholders edited are those next to the last keyPoint:
\* an edit further down leaves a hole in the array)
TextEditable(path) ==
    /\ TextShown(path)
    /\ (path \in DOMAIN PointIndex /\ Layout # "STITCH")
          => Len(localSummary.keyPoints) >= PointIndex[path]
    /\ path \in DOMAIN PointIndex => Len(localSummary.keyPoints) >= PointIndex[path] - 1

\* onBlur of the contentEditable of a text block, after the user typed over it:
\* updateLocalText(path, e.currentTarget.innerText)
TextBlurOn(paths) ==
    /\ EditorIdle
    /\ \E path \in paths : \E value \in EditTexts :
        /\ TextEditable(path)
        /\ updateLocalText(path, value)
    /\ lastEdit' = [op |-> "blur", id |-> ""]
    /\ Quiet /\ AppKeeps
    /\ UNCHANGED <<styleVars, imageVars, widgetVars, activeMode, downloadLabel, downloads>>

\* focus leaves any text block
TextBlur == TextBlurOn(TextPaths)

\* the orders [...keyPoints].sort(() => 0.5 - Math.random()) can leave
Shuffles(points) ==
    {[i \in 1..Len(points) |-> points[f[i]]] :
        f \in {g \in [1..Len(points) -> 1..Len(points)] :
                  \A i, j \in 1..Len(points) : g[i] = g[j] => i = j}}

\* a shuffle that draws every entry at random from the list
shuffleTextContentDraws ==
    \E shuffledPoints \in [1..Len(localSummary.keyPoints) ->
                              {localSummary.keyPoints[i] : i \in 1..Len(localSummary.keyPoints)}] :
        localSummary' = [localSummary EXCEPT !.keyPoints = shuffledPoints]

\* const shuffleTextContent
shuffleTextContent ==
    \E shuffledPoints \in Shuffles(localSummary.keyPoints) :
        localSummary' = [localSummary EXCEPT !.keyPoints = shuffledPoints]

\* the shuffle text button
ShuffleTextClick ==
    /\ EditorIdle
    /\ shuffleTextContent
    /\ lastEdit' = [op |-> "shuffleTextContent", id |-> ""]
    /\ Quiet /\ AppKeeps
    /\ UNCHANGED <<styleVars, imageVars, widgetVars, activeMode, downloadLabel, downloads>>

\* "导出组件未加载"
AlertNotLoaded == "export component not loaded"
\* "导出失败，请尝试上传本地图片代替。"
AlertExportFailed == "export failed, upload local images instead"

\* the script that defines window.html2canvas runs while the editor is shown
Html2canvasLoads ==
    /\ EditorRendered
    /\ ~html2canvas
    /\ html2canvas' = TRUE
    /\ lastEdit' = [op |-> "html2canvas", id |-> ""]
    /\ Quiet
    /\ UNCHANGED <<storedKey, envKey, mounted, step, metadata, summary, genTimers,
                   calls, quoteObjs, keyStepVars, inputStepVars, data>>
    /\ UNCHANGED <<styleVars, imageVars, widgetVars, sessionVars>>

\* handleDownload up to its await: previewRef.current is set while the editor
\* is mounted
handleDownload ==
    IF ~html2canvas
    THEN /\ alertMsg' = AlertNotLoaded
         /\ UNCHANGED <<downloadLabel, downloads>>
    ELSE /\ downloads < MaxDownloads
         /\ downloadLabel' = LabelBusy
         /\ downloads' = downloads + 1
         /\ alertMsg' = NoAlert

\* the export button
DownloadClick ==
    /\ EditorIdle
    /\ handleDownload
    /\ lastResp' = NoResp
    /\ lastEdit' = [op |-> "handleDownload", id |-> ""]
    /\ AppKeeps
    /\ UNCHANGED <<styleVars, imageVars, widgetVars, localSummary, activeMode>>

\* the rest of handleDownload without its finally: the label goes back only
\* when the export succeeds
handleDownloadSettledNoFinally(outcome) ==
    /\ alertMsg' = IF outcome = "throw" THEN AlertExportFailed ELSE NoAlert
    /\ downloadLabel' = IF outcome = "throw" THEN downloadLabel ELSE LabelExport
    /\ downloads' = downloads - 1

\* the rest of handleDownload: html2canvas and canvas.toDataURL gave the
\* picture or one of them threw; catch alerts, finally restores the label
handleDownloadSettled(outcome) ==
    /\ alertMsg' = IF outcome = "throw" THEN AlertExportFailed ELSE NoAlert
    /\ downloadLabel' = LabelExport
    /\ downloads' = downloads - 1

\* a call of html2canvas settles
DownloadSettles ==
    /\ EditorRendered
    /\ downloads > 0
    /\ \E outcome \in {"canvas", "throw"} :
        /\ handleDownloadSettled(outcome)
        /\ lastEdit' = [op |-> outcome, id |-> ""]
    /\ lastResp' = NoResp
    /\ AppKeeps
    /\ UNCHANGED <<styleVars, imageVars, widgetVars, localSummary, activeMode>>

\* the SourceDescriptors and Summaries the editor is entered with
EditorMetas ==
    {Meta("VIDEO", f, <<>>) : f \in BOOLEAN}
    \cup {Meta("IMAGES", FALSE, AppendFresh(<<>>, n)) : n \in 0..MaxImages}
    \cup {Meta("SEARCH", FALSE, <<>>)}

SearchImageLists == {<<>>, <<Remote(1)>>}

\* the editor has just been entered from GENERATING_IMAGES
InitEditor ==
    /\ storedKey = <<"x">> /\ envKey = FALSE /\ html2canvas = FALSE
    /\ mounted = TRUE /\ step = "RESULT_EDITOR"
    /\ metadata \in EditorMetas
    /\ \E urls \in SearchImageLists :
        /\ metadata.sourceType # "SEARCH" => urls = <<>>
        /\ summary = [kind |-> "summary", title |-> "T", coreIdea |-> "C",
                      keyPoints |-> <<"k1">>, goldenQuotes |-> <<1>>,
                      searchImageUrls |-> urls]
    /\ quoteObjs = <<[text |-> "q1", timestamp |-> "00:10"]>>
    /\ genTimers = 0 /\ calls = <<>> /\ lastResp = NoResp /\ alertMsg = NoAlert
    /\ apiKey = <<>> /\ isValidating = FALSE /\ error = NoAlert
    /\ success = FALSE /\ validations = <<>> /\ completeTimers = 0
    /\ activeTab = "VIDEO" /\ videoFile = FALSE /\ videoContext = <<>>
    /\ imageUrls = <<>> /\ imageContext = <<>>
    /\ searchQuery = <<>> /\ isSearching = FALSE /\ searchResults = <<>>
    /\ selectedResultIds = {} /\ searchCalls = <<>>
    /\ data = Null
    /\ infoStyle = "COVER" /\ hiddenFields = {} /\ selectedElementId = ""
    /\ elementStyles = <<>>
    /\ activeFont = "SANS" /\ textColor = "#FFFFFF" /\ highlightColor = "#FACC15"
    /\ imageSeeds = InitialSeeds
    /\ customImages = initialImages(metadata, summary)
    /\ position = [p \in Places |-> Origin]
    /\ isDragging = [p \in Places |-> FALSE]
    /\ dragRef = [p \in Places |-> NoDrag]
    /\ pressed = NoPress /\ lastEdit = NoEdit
    /\ localSummary = summary /\ activeMode = "INFOGRAPHIC"
    /\ downloadLabel = LabelExport /\ downloads = 0

\* the editor has just been entered with uploaded images as the source
InitEditorImages == InitEditor /\ metadata.sourceType = "IMAGES"

\* the editor has just been entered with a video that has a thumbnail
InitEditorVideo == InitEditor /\ metadata = Meta("VIDEO", TRUE, <<>>)

\* the composition of the preview: template, selection, deletion, styles
NextComposition ==
    \/ SetInfoStyle
    \/ WidgetPress \/ onMouseUp
    \/ ContainerClick \/ ResetSelection
    \/ FontSizeChange \/ FontClick \/ ColorClick \/ HighlightClick

\* the widgets under the mouse: press, move, release
NextDrag == SetInfoStyle \/ WidgetMouseDown \/ onMouseMove \/ onMouseUp

\* the image slots
NextImages == SetInfoStyle \/ RefreshClick \/ UploadClick \/ ShuffleImagesClick

\* the widgets a user works on in the sessions below: the header of COVER
\* (with the title inside it) and the first strip of the stitch mode
WorkedOn == {"cover-header", "stitch-sub-0"}

\* a press on one of them, the pointer at rest
WorkedOnPress == WidgetMouseDownOn(WorkedOn, {Origin})

\* a press on the header of COVER, the pointer at rest
HeaderPress == WidgetMouseDownOn({"cover-header"}, {Origin})

\* focus leaves the title
TitleBlur == TextBlurOn({"title"})

\* the editor visited again and again: every part of its state is changed
\* and it is left by back (and entered again from the review, where the
\* title and the coreIdea are edited) or by restart (and entered again after a new run)
NextVisits ==
    \/ SetInfoStyle \/ SetActiveMode
    \/ WorkedOnPress \/ onMouseUp \/ ColorClick
    \/ TitleBlur \/ UploadClick
    \/ EditorBack \/ updateField \/ ReviewNext \/ GenTimerFires
    \/ EditorRestart \/ SetVideoContext \/ SubmitClick \/ GatewaySettles

\* one visit of the editor in which the preview is changed and pictures are
\* exported
NextExport ==
    \/ SetInfoStyle \/ SetActiveMode
    \/ WorkedOnPress \/ onMouseUp \/ ColorClick
    \/ TitleBlur \/ UploadClick
    \/ Html2canvasLoads \/ DownloadClick \/ DownloadSettles

\* one visit of the editor in which the text is edited and shuffled, among
\* the operations on the look of the preview
NextText ==
    \/ SetInfoStyle \/ SetActiveMode
    \/ HeaderPress \/ onMouseUp \/ ColorClick
    \/ RefreshClick \/ UploadClick
    \/ TextBlur \/ ShuffleTextClick

\* one visit of the editor in which elements are deleted, and everything else
\* a user does to the preview
NextHide ==
    \/ SetActiveMode
    \/ HeaderPress \/ onMouseMove \/ onMouseUp \/ ColorClick
    \/ TitleBlur \/ ShuffleTextClick
    \/ ShuffleImagesClick \/ RefreshClick \/ UploadClick

\* ---------------------------------------------------------- specification
Next ==
    \/ AppMount
    \/ SetApiKey \/ ValidateClick \/ ValidationSettles \/ CompleteTimerFires
    \/ SetActiveTab \/ handleVideoUpload \/ SetVideoContext
    \/ handleImageUpload \/ removeImage \/ SetImageContext
    \/ SetSearchQuery \/ SearchClick \/ SearchEnter \/ SearchSettles
    \/ toggleResultSelection \/ SubmitClick
    \/ GatewaySettles
    \/ updateField \/ handlePointChange \/ QuoteOnChange \/ ReviewNext \/ ReviewBack
    \/ GenTimerFires
    \/ EditorBack \/ EditorRestart

Spec == Init /\ [][Next]_vars

SpecEnvKey == InitEnvKey /\ [][Next]_vars

\* the wizard when every gateway call in flight settles in the end (the
\* backend answers or the request fails; the demo timer fires)
SpecSettling == Init /\ [][Next]_vars /\ WF_vars(GatewaySettles)

\* one visit of the editor, its composition operations
SpecEditor == InitEditorVideo /\ [][NextComposition]_vars

\* one visit of the editor, its widgets dragged
SpecEditorDrag == InitEditorVideo /\ [][NextDrag]_vars

\* one visit of the editor, its image operations
SpecEditorImages == InitEditor /\ [][NextImages]_vars

\* the review has just been entered with a Summary of three key points and
\* two quotes
InitReview ==
    /\ storedKey = <<"x">> /\ envKey = FALSE /\ html2canvas = FALSE
    /\ mounted = TRUE /\ step = "REVIEW_TEXT"
    /\ metadata = Meta("VIDEO", FALSE, <<>>)
    /\ summary = [kind |-> "summary", title |-> "T", coreIdea |-> "C",
                  keyPoints |-> <<"k1", "k2", "k3">>, goldenQuotes |-> <<1, 2>>,
                  searchImageUrls |-> <<>>]
    /\ quoteObjs = <<[text |-> "q1", timestamp |-> "00:10"],
                     [text |-> "q2", timestamp |-> "00:20"]>>
    /\ genTimers = 0 /\ calls = <<>> /\ lastResp = NoResp /\ alertMsg = NoAlert
    /\ apiKey = <<>> /\ isValidating = FALSE /\ error = NoAlert
    /\ success = FALSE /\ validations = <<>> /\ completeTimers = 0
    /\ activeTab = "VIDEO" /\ videoFile = FALSE /\ videoContext = <<>>
    /\ imageUrls = <<>> /\ imageContext = <<>>
    /\ searchQuery = <<>> /\ isSearching = FALSE /\ searchResults = <<>>
    /\ selectedResultIds = {} /\ searchCalls = <<>>
    /\ data = summary
    /\ infoStyle = "COVER" /\ hiddenFields = {} /\ selectedElementId = ""
    /\ elementStyles = <<>>
    /\ activeFont = "SANS" /\ textColor = "#FFFFFF" /\ highlightColor = "#FACC15"
    /\ imageSeeds = InitialSeeds /\ customImages = NoImages
    /\ position = [p \in Places |-> Origin]
    /\ isDragging = [p \in Places |-> FALSE]
    /\ dragRef = [p \in Places |-> NoDrag]
    /\ pressed = NoPress /\ lastEdit = NoEdit
    /\ localSummary = Null /\ activeMode = "INFOGRAPHIC"
    /\ downloadLabel = LabelExport /\ downloads = 0

\* the review and the way back to it from the editor
NextReview ==
    \/ updateField \/ handlePointChange \/ QuoteOnChange \/ ReviewNext \/ ReviewBack
    \/ GenTimerFires \/ EditorBack

\* the review of one Summary
SpecReview == InitReview /\ [][NextReview]_vars

\* visits of the editor, the first one with uploaded images as the source
SpecEditorVisits == InitEditorImages /\ [][NextVisits]_vars

\* one visit of the editor, its pictures exported
SpecEditorExport == InitEditorVideo /\ [][NextExport]_vars

\* one visit of the editor, its text edited
SpecEditorText == InitEditorVideo /\ [][NextText]_vars

\* one visit of the editor, elements deleted among the other operations
SpecEditorHide == InitEditorVideo /\ [][NextHide]_vars

\* a browser that holds a key
InitStoredKey == InitAny /\ envKey = FALSE /\ Truthy(storedKey)

\* every build: process.env.API_KEY set or not
InitAnyKey == InitAny /\ envKey \in BOOLEAN

SpecAnyKey == InitAnyKey /\ [][Next]_vars

\* ------------------------------------------------------------------ claims
\* C1: in every reachable state, step = REVIEW_TEXT implies summary non-null,
\* step = GENERATING_IMAGES implies summary non-null, and step = RESULT_EDITOR
\* implies summary and metadata both non-null.
C1_RequiredDataPresent ==
    /\ step = "REVIEW_TEXT" => summary # Null
    /\ step = "GENERATING_IMAGES" => summary # Null
    /\ step = "RESULT_EDITOR" => (summary # Null /\ metadata # Null)

\* C2: every change of the wizard step is one of the nine listed edges.
WizardEdges ==
    {<<"API_KEY_INPUT", "INPUT">>, <<"INPUT", "PROCESSING_TEXT">>,
     <<"PROCESSING_TEXT", "REVIEW_TEXT">>, <<"PROCESSING_TEXT", "INPUT">>,
     <<"REVIEW_TEXT", "GENERATING_IMAGES">>, <<"GENERATING_IMAGES", "RESULT_EDITOR">>,
     <<"REVIEW_TEXT", "INPUT">>, <<"RESULT_EDITOR", "REVIEW_TEXT">>,
     <<"RESULT_EDITOR", "INPUT">>}

C2_OnlyWizardEdges == [][step' # step => <<step, step'>> \in WizardEdges]_vars

\* a Summary confirmed with an edited title is shown in REVIEW_TEXT again: the
\* wizard has gone INPUT, PROCESSING_TEXT, REVIEW_TEXT, GENERATING_IMAGES,
\* RESULT_EDITOR and back to REVIEW_TEXT
C2_Witness ==
    step = "REVIEW_TEXT" /\ summary.kind = "summary" /\ summary.title \in EditTexts

\* C3: for a submission that passed intake validation, the step after
\* PROCESSING_TEXT is REVIEW_TEXT if and only if the gateway returned a
\* well-formed Summary, and INPUT in every other case.
WellFormedResponse(resp) ==
    /\ resp.kind \in {"json", "demo"}
    /\ resp.value.kind = "summary"

C3_ReviewIffWellFormed ==
    [][(step = "PROCESSING_TEXT" /\ step' # step)
        => IF WellFormedResponse(lastResp') THEN step' = "REVIEW_TEXT"
                                            ELSE step' = "INPUT"]_vars

\* the gateway call fails: it throws, answers with no text or with text that
\* JSON.parse rejects
FailedResponse(resp) == resp.kind \in {"throw", "empty", "unparseable"}

\* C4, as claimed: whenever a gateway call fails, the wizard ends in INPUT
\* with the controller's Summary null and an error message shown, in every
\* history of the run.
C4_FailureLeavesNoSummary ==
    [][(step = "PROCESSING_TEXT" /\ FailedResponse(lastResp'))
        => (step' = "INPUT" /\ alertMsg' = AlertAiFailed /\ summary' = Null)]_vars

\* C4, as amended: whenever a gateway call fails, the wizard ends in INPUT
\* with an error message shown and the controller's Summary is exactly what it
\* was before the call (null only if it was null before).
C4_FailureKeepsSummary ==
    [][(step = "PROCESSING_TEXT" /\ FailedResponse(lastResp'))
        => /\ step' = "INPUT"
           /\ alertMsg' = AlertAiFailed
           /\ summary' = summary
           /\ quoteObjs' = quoteObjs]_vars

\* a gateway call has just failed in a run whose earlier submission succeeded
C4_Witness ==
    /\ FailedResponse(lastResp)
    /\ step = "INPUT" /\ alertMsg = AlertAiFailed
    /\ summary # Null

\* C5: an invalid intake submission (VIDEO with neither file nor description,
\* IMAGES with neither image nor caption, SEARCH with no selected result)
\* changes no wizard state: onNext is not called, step stays INPUT, metadata
\* and summary are unchanged.
InvalidIntake ==
    \/ activeTab = "VIDEO" /\ ~videoFile /\ videoContext = <<>>
    \/ activeTab = "IMAGES" /\ imageUrls = <<>> /\ imageContext = <<>>
    \/ activeTab = "SEARCH" /\ selectedResultIds = {}

C5_InvalidSubmitNoChange ==
    [][(mounted /\ step = "INPUT" /\ InvalidIntake)
        => /\ step' = "INPUT"
           /\ metadata' = metadata
           /\ summary' = summary /\ quoteObjs' = quoteObjs
           /\ calls' = calls]_vars

\* an IMAGES submission has just been refused while an earlier Summary and
\* its metadata are held
C5_Witness ==
    /\ alertMsg = AlertImagesMissing
    /\ step = "INPUT" /\ activeTab = "IMAGES"
    /\ summary # Null /\ metadata # Null /\ metadata.sourceType # "IMAGES"

\* C6: the wizard enters PROCESSING_TEXT only with a non-blank payload; a
\* submission whose payload is empty or white space only leaves step = INPUT.
IntakePayload ==
    IF activeTab = "VIDEO"
    THEN (IF videoContext = <<>> THEN VideoFallbackText ELSE videoContext)
    ELSE IF activeTab = "IMAGES" THEN imageContext
    ELSE aggregatedText

IsBlank(s) == \A i \in 1..Len(s) : s[i] \in WhiteSpace

C6_ProcessingNeedsPayload ==
    /\ [][(step # "PROCESSING_TEXT" /\ step' = "PROCESSING_TEXT")
           => /\ Len(calls') = Len(calls) + 1
              /\ ~IsBlank(calls'[Len(calls')].input)]_vars
    /\ [][(mounted /\ step = "INPUT" /\ IsBlank(IntakePayload))
           => step' = "INPUT"]_vars

\* IMAGES with an uploaded image and no caption has just been submitted: it
\* passed the intake check, the alert of handleInputComplete is shown and the
\* intake is still on screen
C6_Witness ==
    /\ alertMsg = AlertAiFailed /\ step = "INPUT" /\ calls = <<>>
    /\ activeTab = "IMAGES" /\ Len(imageUrls) > 0 /\ imageContext = <<>>
    /\ metadata # Null /\ metadata.sourceType = "IMAGES"

\* C7: at most one summarization call is in flight at any time; while one is,
\* step is PROCESSING_TEXT and the intake is not on screen.
C7_OneCallInFlight ==
    /\ Len(calls) <= 1
    /\ calls # <<>> => (step = "PROCESSING_TEXT" /\ ~InputRendered)
    /\ step = "PROCESSING_TEXT" => Len(calls) = 1

\* a second submission of the run is in flight, after one that succeeded
C7_Witness == Len(calls) = 1 /\ summary # Null

\* C8: confirming in REVIEW_TEXT stores the edited Summary and sets step =
\* GENERATING_IMAGES; from there a pending timer, and nothing else, takes the
\* step to RESULT_EDITOR, and the Summary does not change on the way.
C8_ConfirmThenEditor ==
    /\ [][(step = "REVIEW_TEXT" /\ step' = "GENERATING_IMAGES")
           => SummaryValue(summary)' = SummaryValue(data)]_vars
    /\ [][step = "GENERATING_IMAGES"
           => /\ step' \in {"GENERATING_IMAGES", "RESULT_EDITOR"}
              /\ SummaryValue(summary)' = SummaryValue(summary)]_vars
    /\ [](step = "GENERATING_IMAGES" => genTimers = 1)
    /\ [](genTimers > 0 => step = "GENERATING_IMAGES")

\* the editor is shown with a Summary whose title, coreIdea, key point and
\* quote were all edited in the review
C8_Witness ==
    /\ step = "RESULT_EDITOR" /\ summary.kind = "summary"
    /\ summary.title \in EditTexts /\ summary.coreIdea \in EditTexts
    /\ Len(summary.keyPoints) > 0 /\ summary.keyPoints[1] \in EditTexts
    /\ Len(summary.goldenQuotes) > 0
    /\ SummaryValue(summary).goldenQuotes[1].text \in EditTexts

C10_EditsStayLocal ==
    [][(step = "REVIEW_TEXT" /\ step' \in {"REVIEW_TEXT", "INPUT"})
        => SummaryValue(summary)' = SummaryValue(summary)]_vars

\* C11: the first interactive step is INPUT when a credential is present at
\* load (stored key or configured key) and API_KEY_INPUT otherwise; the step
\* leaves API_KEY_INPUT only to INPUT and, when no credential was present at
\* load, only after a validation returned usable (success set, key stored).
C11_CredentialGate ==
    /\ [][(~mounted /\ mounted')
           => step' = IF storedKey # <<>> \/ envKey THEN "INPUT"
                                                    ELSE "API_KEY_INPUT"]_vars
    /\ [][(step = "API_KEY_INPUT" /\ step' # step) => step' = "INPUT"]_vars
    /\ [][(mounted /\ step = "API_KEY_INPUT" /\ step' # step)
           => (success /\ storedKey # <<>> /\ ~envKey)]_vars
    /\ [](mounted /\ step = "API_KEY_INPUT" /\ ~success => storedKey = <<>>)

\* a build with a configured key and nothing stored is at INPUT after load
C11_Witness == mounted /\ envKey /\ storedKey = <<>> /\ step = "INPUT"

C13_SwitchResetsOverrides ==
    [][(lastEdit'.op = "setInfoStyle" /\ infoStyle' # infoStyle)
            => (hiddenFields' = {} /\ elementStyles' = <<>>)]_vars

\* the operations of the style panel that restyle the selected element
Restyles == {"fontSize", "fontFamily", "color"}

\* C14: once an element is deleted, a restyle that targets it leaves the
\* rendered output as it was: the element stays off screen and no other
\* element's font size, colour or font changes
C14_RestyleOfDeletedIsNoOp ==
    [][(lastEdit'.op \in Restyles /\ selectedElementId \in hiddenFields)
            => /\ RenderedOutput' = RenderedOutput
               /\ selectedElementId \notin RenderedOutput'.widgets]_vars

C14_Witness ==
    /\ lastEdit.op \in Restyles
    /\ selectedElementId \in hiddenFields
    /\ selectedElementId \in DOMAIN elementStyles
    /\ RenderedOutput.widgets # {}

\* C15: the offset of an element changes only by pointer movement while that
\* element is dragged: for every element on screen after a step, an offset
\* that differs from the one it had before the step (zero, the template's
\* own place, for an element that was not on screen) comes from a mousemove
\* while the element is held, and equals the offset at press time plus the
\* displacement of the pointer since the press; a press and a release alone
\* never change it
C15_OffsetOnlyByDrag ==
    [][\A id \in Widgets(infoStyle') :
         LET p == WidgetPlace(id)
             before == IF id \in Widgets(infoStyle) THEN position[p] ELSE Origin IN
         position'[p] # before
            => /\ lastEdit'.op = "mousemove"
               /\ pressed.id = id
               /\ \E e \in Clients : position'[p] = Dragged(dragRef[p], e)]_vars

\* C16: with no image in customImages, the shuffle changes the URL that
\* getImageUrl returns for every one of the five slots
C16_ShuffleChangesEverySlot ==
    [][(lastEdit'.op = "shuffleAllImages" /\ customImages = NoImages)
            => \A k \in SeedKey : getImageUrl(k)' # getImageUrl(k)]_vars

SourceDefault(k) == initialImages(metadata, summary)[k]

\* C18: in every state of the editor a slot shows the image the user
\* uploaded for it if there is one, else the image the source gives the slot
\* if there is one, else the placeholder of the slot's seed
C18_ResolutionOrder ==
    EditorRendered =>
        \A k \in SeedKey :
            getImageUrl(k) = IF k \in EditorUploads THEN customImages[k]
                             ELSE IF SourceDefault(k) # NoImage THEN SourceDefault(k)
                             ELSE Picsum(imageSeeds[k])

\* C19: refresh of a slot that holds an image removes that image and leaves
\* every seed; refresh of a slot that holds none replaces the seed of that
\* slot and leaves customImages; images and seeds of the other slots stay
C19_RefreshOneOfTwo ==
    [][lastEdit'.op = "refreshImage"
            => LET k == lastEdit'.id IN
               /\ \A j \in SeedKey \ {k} :
                     customImages'[j] = customImages[j] /\ imageSeeds'[j] = imageSeeds[j]
               /\ IF customImages[k] # NoImage
                  THEN customImages'[k] = NoImage /\ imageSeeds' = imageSeeds
                  ELSE customImages' = customImages /\ imageSeeds'[k] \in RandomSeeds]_vars

C19_Witness ==
    /\ lastEdit.op = "refreshImage"
    /\ SourceDefault(lastEdit.id) # NoImage
    /\ customImages[lastEdit.id] = NoImage
    /\ imageSeeds = InitialSeeds

\* C20: a font or colour edit while an element is selected changes only the
\* style record of that element, and leaves activeFont, textColor,
\* highlightColor and the records of all other elements; the same edit while
\* nothing is selected changes only the global style and leaves every record
C20_RestyleRoutedBySelection ==
    [][lastEdit'.op \in {"fontFamily", "color"}
            => IF selectedElementId # ""
               THEN /\ UNCHANGED <<activeFont, textColor, highlightColor>>
                    /\ DOMAIN elementStyles' = DOMAIN elementStyles \cup {selectedElementId}
                    /\ \A id \in DOMAIN elementStyles \ {selectedElementId} :
                          elementStyles'[id] = elementStyles[id]
               ELSE UNCHANGED <<elementStyles, hiddenFields, selectedElementId>>]_vars

C20_Witness ==
    /\ lastEdit.op = "color"
    /\ selectedElementId # ""
    /\ StyleOf(selectedElementId).color \in ColorChoices
    /\ DOMAIN elementStyles # {selectedElementId}
    /\ textColor = "#FFFFFF"

\* C21: the events of one click on a widget or on a text block (mousedown,
\* mouseup, click, the click bubbling to the preview container) end with
\* that element selected, never with the selection cleared
C21_ClickSelects ==
    [][(lastEdit'.op = "click" /\ pressed.target # "delete")
            => selectedElementId' \in {pressed.id, pressed.target}]_vars

\* the gateway outcomes a step can deliver
GatewayOutcomes == {"json", "demo", "throw", "empty", "unparseable"}

\* C23: generateContentSummary resolves only with a value of the Summary
\* shape; for every other response (no text, text that does not parse, text
\* that parses to null, to an array or to an object without the fields) it
\* rejects and the wizard goes to INPUT
C23_ResolvesOnlyWithSummary ==
    [][(step = "PROCESSING_TEXT" /\ lastResp'.kind \in GatewayOutcomes)
            => LET result == generateContentSummary(lastResp') IN
               /\ result.resolve => result.value.kind = "summary"
               /\ ~result.resolve => step' = "INPUT"
               /\ lastResp'.value.kind # "summary" => step' = "INPUT"]_vars

\* C24: when the wizard enters REVIEW_TEXT from PROCESSING_TEXT with a
\* Summary, the Summary has at least one keyPoint and at least one goldenQuote
C24_ReviewedSummaryNotEmpty ==
    [][(step = "PROCESSING_TEXT" /\ step' = "REVIEW_TEXT" /\ summary'.kind = "summary")
            => (Len(summary'.keyPoints) >= 1 /\ Len(summary'.goldenQuotes) >= 1)]_vars

\* C25: searchTopic never rejects: when the backend call throws, answers with
\* no text, with text that does not parse or with text that parses to
\* something that is not an array, it resolves to the empty list; the intake
\* step then shows an empty result list and no alert
C25_SearchNeverRejects ==
    /\ \A resp \in SearchResponses \cup SearchResponsesFor([hasKey |-> FALSE]) :
          /\ searchTopic(resp).resolve
          /\ resp.kind \in SearchFailures => searchTopic(resp).value = <<>>
    /\ [][lastResp'.kind = "search"
            => /\ alertMsg' = NoAlert
               /\ ~isSearching'
               /\ lastResp'.value.kind \in SearchFailures => searchResults' = <<>>]_vars

C25_Witness ==
    /\ lastResp.kind = "search" /\ lastResp.value.kind = "throw"
    /\ InputRendered /\ searchResults = <<>> /\ ~isSearching /\ alertMsg = NoAlert

\* the submit button pressed with an intake that starts a call
Resubmit == SubmitClick /\ step' = "PROCESSING_TEXT"

\* C28: PROCESSING_TEXT is never the last step: when the gateway call
\* settles, the wizard goes on to REVIEW_TEXT or to INPUT; and at INPUT, once
\* the user has given a description again, a submission starts a new call
C28_ProcessingEnds ==
    /\ (step = "PROCESSING_TEXT") ~> (step \in {"REVIEW_TEXT", "INPUT"})
    /\ [](step = "PROCESSING_TEXT" => calls # <<>>)
    /\ []((InputRendered /\ activeTab = "VIDEO" /\ trim(videoContext) # <<>>)
            => ENABLED Resubmit)

C28_Witness ==
    /\ lastResp.kind = "throw" /\ alertMsg = AlertAiFailed
    /\ step = "INPUT" /\ calls = <<>> /\ InputRendered

\* the parts of a Summary no field of the review step edits
SummaryShape(s) ==
    [points |-> Len(s.keyPoints), quotes |-> Len(s.goldenQuotes),
     timestamps |-> [i \in 1..Len(s.goldenQuotes) |-> s.goldenQuotes[i].timestamp],
     searchImageUrls |-> s.searchImageUrls]

\* the positions at which two sequences of the same length differ
Differing(a, b) == {i \in 1..Len(a) : a[i] # b[i]}

\* C30: an edit in REVIEW_TEXT changes only the text of title, coreIdea, one
\* keyPoint or one quote: the number and order of keyPoints and goldenQuotes,
\* every quote timestamp and searchImageUrls stay as they are, and confirm
\* hands the edited Summary, and nothing else, to the controller.
C30_ReviewEditsOnlyText ==
    /\ [][(ReviewEditable /\ step' = "REVIEW_TEXT" /\ data'.kind = "summary")
           => LET old == SummaryValue(data)
                  new == SummaryValue(data)'
              IN /\ SummaryShape(new) = SummaryShape(old)
                 /\ Cardinality(Differing(new.keyPoints, old.keyPoints)) <= 1
                 /\ Cardinality(Differing(new.goldenQuotes, old.goldenQuotes)) <= 1
                 /\ \A i \in Differing(new.keyPoints, old.keyPoints) :
                        new.keyPoints[i] \in EditTexts
                 /\ \A i \in Differing(new.goldenQuotes, old.goldenQuotes) :
                        new.goldenQuotes[i].text \in EditTexts
                 /\ new.title # old.title => new.title \in EditTexts
                 /\ new.coreIdea # old.coreIdea => new.coreIdea \in EditTexts]_vars
    /\ [][(ReviewEditable /\ step' = "GENERATING_IMAGES")
           => (summary' = data /\ quoteObjs' = quoteObjs)]_vars

\* the second of three key points and the first of two quotes were edited in
\* the review and confirmed: the other key points, the other quote and both
\* timestamps are the ones the review was entered with
C30_Witness ==
    /\ step = "GENERATING_IMAGES" /\ summary.kind = "summary"
    /\ summary.keyPoints = <<"k1", "e", "k3">>
    /\ SummaryValue(summary).goldenQuotes
          = <<[text |-> "e", timestamp |-> "00:10"], [text |-> "q2", timestamp |-> "00:20"]>>
    /\ summary.title = "e" /\ summary.coreIdea = "C"

\* C22: a text edit committed in the editor (focus leaves the title, the
\* coreIdea or a keyPoint) is written back to the Summary of the wizard: back
\* from the editor shows the review with the text the editor showed.
C22_EditWrittenBack ==
    [][(EditorRendered /\ localSummary.kind = "summary" /\ step' = "REVIEW_TEXT")
           => /\ data'.title = localSummary.title
              /\ data'.coreIdea = localSummary.coreIdea
              /\ data'.keyPoints = localSummary.keyPoints]_vars

\* what the preview shows and what the wizard holds: the export reads it
EditorContent ==
    <<localSummary, infoStyle, activeMode, hiddenFields, selectedElementId,
      elementStyles, activeFont, textColor, highlightColor, imageSeeds,
      customImages, position>>
WizardContent == <<step, metadata, summary, quoteObjs, data>>

\* C26: an export that fails (html2canvas is not loaded, or the raster call
\* throws) shows an alert and changes nothing else: the step stays
\* RESULT_EDITOR and the Summary, template, mode, overrides, image slots and
\* selection are as before; once the raster call has settled, with a picture
\* or with an exception, the button carries its label again.
C26_ExportFailureKeepsState ==
    /\ [][lastEdit'.op \in {"handleDownload", "canvas", "throw"}
           => /\ step' = "RESULT_EDITOR"
              /\ UNCHANGED <<EditorContent, WizardContent>>]_vars
    /\ [][(lastEdit'.op = "handleDownload" /\ ~html2canvas)
           => (alertMsg' = AlertNotLoaded /\ UNCHANGED <<downloadLabel, downloads>>)]_vars
    /\ [][lastEdit'.op = "throw"
           => (alertMsg' = AlertExportFailed /\ downloadLabel' = LabelExport)]_vars
    /\ [][lastEdit'.op = "canvas"
           => (alertMsg' = NoAlert /\ downloadLabel' = LabelExport)]_vars
    /\ [](downloads = 0 => downloadLabel = LabelExport)

\* the raster call has thrown in an editor that shows an edited title in the
\* stitch mode, a hidden header, a style override and an uploaded picture
C26_Witness ==
    /\ lastEdit.op = "throw" /\ alertMsg = AlertExportFailed
    /\ step = "RESULT_EDITOR" /\ downloadLabel = LabelExport /\ downloads = 0
    /\ localSummary.title = "e" /\ activeMode = "SUBTITLE_STITCH"
    /\ infoStyle = "MINIMAL" /\ hiddenFields # {} /\ elementStyles # <<>>
    /\ customImages # NoImages

C29_HiddenOnlyGrows ==
    /\ [][(lastEdit'.op = "click" /\ pressed.target = "delete")
           => (pressed.id \in hiddenFields' /\ pressed.id \notin RenderedOutput'.widgets)]_vars
    /\ [][hiddenFields \subseteq hiddenFields']_vars
    /\ [](\A id \in hiddenFields : id \notin RenderedOutput.widgets)

\* the header was deleted; since then the title was edited, a colour was set,
\* a picture uploaded and the mode switched to the stitch mode and back
C29_Witness ==
    /\ hiddenFields = {"cover-header"}
    /\ localSummary.title = "e" /\ elementStyles # <<>>
    /\ EditorUploads # {}
    /\ imageSeeds # InitialSeeds
    /\ activeMode = "INFOGRAPHIC" /\ lastEdit.op = "setActiveMode"

\* the number of the fields title, coreIdea, keyPoints[i] in which two
\* Summaries with as many keyPoints differ
FieldsChanged(old, new) ==
    (IF new.title # old.title THEN 1 ELSE 0)
    + (IF new.coreIdea # old.coreIdea THEN 1 ELSE 0)
    + Cardinality(Differing(new.keyPoints, old.keyPoints))

\* C31: a text edit in the editor changes only the addressed field of the
\* editor's Summary (a title or coreIdea edit nothing else, a keyPoints[i]
\* edit only index i) and never the number of keyPoints; the operations on
\* the look of the preview leave the Summary as it is.
C31_EditChangesOnlyField ==
    /\ [][lastEdit'.op = "blur"
           => /\ Len(localSummary'.keyPoints) = Len(localSummary.keyPoints)
              /\ FieldsChanged(localSummary, localSummary') <= 1
              /\ localSummary'.goldenQuotes = localSummary.goldenQuotes
              /\ localSummary'.searchImageUrls = localSummary.searchImageUrls]_vars
    /\ [][lastEdit'.op \notin {"blur", "shuffleTextContent"}
           => localSummary' = localSummary]_vars

\* how often x occurs in the sequence a
Occurrences(a, x) == Cardinality({i \in 1..Len(a) : a[i] = x})

\* C32: shuffle text only reorders keyPoints: the sequence after is a
\* permutation of the sequence before (same length, every string as often),
\* and title, coreIdea, goldenQuotes and searchImageUrls are unchanged.
C32_ShuffleOnlyReorders ==
    [][lastEdit'.op = "shuffleTextContent"
           => LET old == localSummary.keyPoints
                  new == localSummary'.keyPoints
              IN /\ Len(new) = Len(old)
                 /\ \A i \in 1..Len(old) : Occurrences(new, old[i]) = Occurrences(old, old[i])
                 /\ localSummary' = [localSummary EXCEPT !.keyPoints = new]]_vars

\* a shuffle has put the key point typed into the second strip in front of
\* the one the editor was entered with
C32_Witness ==
    /\ lastEdit.op = "shuffleTextContent"
    /\ localSummary.keyPoints = <<"e", "k1">>
    /\ localSummary.title = "T"
\* ---------------------------------------------------------------- C33
\* submissions whose backend answers with a text that carries a serialized
\* Summary, bare or in a code fence
NextFence ==
    \/ AppMount
    \/ SetVideoContext
    \/ SubmitClick
    \/ TextSettles
    \/ ReviewBack

SpecFence == InitStoredKey /\ [][NextFence]_vars

\* C33: code-fence stripping does not change the parsed result: a response
\* equal to a serialized Summary s, to s in a ```json fence or to s in a bare
\* ``` fence, with white space around, parses to the Summary of s under the
\* branch-on-prefix cleanup and under the chained-replace cleanup, and the
\* handler that awaits the call lands in the review with that Summary
C33_FenceStrippingKeepsResult ==
    /\ \A c \in Contents : \A text \in Wrappings(Serialized(c)) :
          /\ JsonParse(Serialized(c)) = [ok |-> TRUE, value |-> SummaryOf(c)]
          /\ JsonParse(cleanBranch(text)) = JsonParse(Serialized(c))
          /\ JsonParse(cleanChained(text)) = JsonParse(Serialized(c))
    /\ [][lastResp'.kind = "text"
           => /\ step' = "REVIEW_TEXT"
              /\ \A c \in Contents :
                    lastResp'.value.text \in Wrappings(Serialized(c))
                    => /\ summary'.title = c
                       /\ summary'.keyPoints = SummaryOf(c).keyPoints
                       /\ quoteObjs' = SummaryOf(c).goldenQuotes]_vars

\* a bare fence with white space inside and around, holding a Summary whose
\* text is itself a fence, has been parsed by the chained cleanup
C33_Witness ==
    /\ lastResp.kind = "text" /\ lastResp.value.kind = "chained"
    /\ lastResp.value.text
         = <<"\n">> \o Fence \o <<" ", "\n">> \o Serialized(Fence)
           \o <<" ", "\n">> \o Fence \o <<"\n">>
    /\ step = "REVIEW_TEXT" /\ summary.title = Fence
\* ---------------------------------------------------------- C34, C35
\* the search intake of a browser that holds a key, with the Enter key
\* pressed also while a request is in flight
NextSearch ==
    \/ AppMount
    \/ SetActiveTab
    \/ SetSearchQuery
    \/ SearchClick
    \/ SearchEnterAgain
    \/ SearchSettles
    \/ toggleResultSelection
    \/ SubmitClick

SpecSearch == InitStoredKey /\ [][NextSearch]_vars

\* C34: at most one search request is in flight in the search intake and
\* isSearching is true exactly while one is; a request that settles is the
\* only one in flight, so an older result never overwrites a newer one
C34_OneSearchInFlight ==
    /\ [](Len(searchCalls) <= 1)
    /\ [](isSearching <=> searchCalls # <<>>)
    /\ [][lastResp'.kind = "search" => Len(searchCalls) = 1]_vars

\* the ids of the listed results
ListedIds == {searchResults[i] : i \in 1..Len(searchResults)}

\* the blocks of an aggregated text
Blocks(text) == {i \in 1..Len(text) : text[i] # "\n"}

\* C35: every selected result id is the id of a listed result, and a
\* submission from the search intake sends a text of one block per selected
\* id, which is not empty when an id is selected
C35_SelectedAreListed ==
    /\ [](selectedResultIds \subseteq ListedIds)
    /\ [][(step = "INPUT" /\ activeTab = "SEARCH" /\ selectedResultIds # {}
           /\ alertMsg' \in {NoAlert, AlertAiFailed} /\ metadata' # metadata)
           => /\ step' = "PROCESSING_TEXT"
              /\ Cardinality(Blocks(calls'[Len(calls')].input))
                   = Cardinality(selectedResultIds)]_vars
\* ---------------------------------------------------------------- C36
\* the steps that show a Summary
SummarySteps == {"REVIEW_TEXT", "GENERATING_IMAGES", "RESULT_EDITOR"}

\* C36: in REVIEW_TEXT, GENERATING_IMAGES and RESULT_EDITOR the Summary
\* descends from the gateway result of the submission that set the current
\* metadata: these steps are entered only when the one call in flight
\* resolves, that call was made by the submission whose metadata is the
\* current one, the Summary is then the call's result, and inside these steps
\* the metadata stays and the Summary changes only by the review's own edits
C36_SummaryOfSameSubmission ==
    /\ [](step \in SummarySteps => metadata # Null /\ calls = <<>>)
    /\ [][(step \notin SummarySteps /\ step' \in SummarySteps)
           => /\ step = "PROCESSING_TEXT" /\ step' = "REVIEW_TEXT"
              /\ Len(calls) = 1 /\ calls' = <<>>
              /\ calls[1].meta = metadata /\ metadata' = metadata
              /\ lastResp' \in ResponsesFor(calls[1])
              /\ generateContentSummary(lastResp').resolve
              /\ SummaryValue(summary)' = generateContentSummary(lastResp').value]_vars
    /\ [][(step \in SummarySteps /\ step' \in SummarySteps)
           => /\ metadata' = metadata
              /\ summary' # summary
                 => (step = "REVIEW_TEXT" /\ step' = "GENERATING_IMAGES"
                     /\ summary' = data)]_vars
    /\ [][metadata' # metadata => step = "INPUT" \/ step' = "INPUT"]_vars

\* the call of a submission from the search intake has resolved and the
\* review shows its Summary under the metadata of that submission
C36_Witness ==
    /\ step = "REVIEW_TEXT" /\ lastResp.kind = "json"
    /\ metadata.sourceType = "SEARCH"
    /\ summary # Null /\ calls = <<>>
\* ---------------------------------------------------------------- C37
\* the credential test of App's mount effect: a stored key or an env key
CredentialPresent == Truthy(storedKey) \/ envKey

\* C37: the credential check and the gateway agree: where App skips
\* API_KEY_INPUT because a stored key or an env key is present, every call of
\* generateContentSummary and of searchTopic goes to the backend, and none
\* returns the built-in demo data
C37_CheckAgreesWithGateway ==
    /\ [](CredentialPresent
          => /\ \A i \in 1..Len(calls) : calls[i].hasKey
             /\ \A i \in 1..Len(searchCalls) : searchCalls[i].hasKey)
    /\ [][(CredentialPresent
           /\ lastResp'.kind \in {"demo", "search"}
           /\ lastResp' # lastResp)
           => lastResp'.kind = "search" /\ lastResp'.value.kind # "mock"]_vars
\* ---------------------------------------------------------------- C38
\* C38: at most one validation is in flight; the key written to storage is
\* the string that was passed to the validation that returned usable, also
\* when the field was edited while it was in flight; a successful validation
\* schedules onComplete once, no second one is scheduled, and onComplete
\* itself leaves no call pending
C38_StoredKeyIsValidatedKey ==
    /\ [](Len(validations) <= 1)
    /\ [](completeTimers <= 1 /\ (completeTimers = 1 <=> (success /\ step = "API_KEY_INPUT")))
    /\ [][(lastResp'.kind = "validate" /\ lastResp'.value.kind = "ok")
           => /\ Len(validations) = 1
              /\ storedKey' = validations[1]
              /\ success' /\ ~success
              /\ completeTimers = 0 /\ completeTimers' = 1]_vars
    /\ [][storedKey' # storedKey
           => lastResp'.kind = "validate" /\ lastResp'.value.kind = "ok"]_vars
    /\ [][completeTimers = 1 /\ completeTimers' = 0
           => step = "API_KEY_INPUT" /\ step' = "INPUT"]_vars

\* the field was blanked while the validation of "x" was in flight, and the
\* validation returned usable
C38_Witness ==
    /\ lastResp.kind = "validate" /\ lastResp.value.kind = "ok"
    /\ success /\ completeTimers = 1
    /\ storedKey = <<"x">> /\ apiKey = <<" ">>
\* ---------------------------------------------------------------- C39
\* C39: the selected element, if any, is not a hidden element: a delete,
\* with the press on the widget that comes before the click on its delete
\* button, does not leave the deleted element selected, and no edit of the
\* style panel is stored for a hidden element
C39_SelectedNotHidden ==
    /\ [](selectedElementId \notin hiddenFields)
    /\ [][elementStyles' # elementStyles
           => selectedElementId \notin hiddenFields]_vars
====
